---------------------------- MODULE Spec2Model ----------------------------
(***************************************************************************)
(* A model of package log (github.com/apsystole/log): leveled JSON logging *)
(* for Google Cloud.  Text is modelled byte by byte: a Go string or []byte  *)
(* is a sequence of one-character strings, and a stream is the sequence of *)
(* the bytes written to it.                                                *)
(***************************************************************************)
EXTENDS Integers, Sequences, FiniteSets, TLC

VARIABLES
    ProjectID,  \* package var ProjectID
    logger,     \* the Logger values that exist: id -> [made, out, err, trace]
    mu,         \* Logger.mu of each Logger: the goroutine holding it, or NoOne
    stream,     \* bytes received so far by each io.Writer
    owner,      \* for each byte of a stream, the id of the call that wrote it
    nwrites,    \* number of Write calls made by each call id
    pc,         \* where each goroutine is in its current call
    call,       \* the current call of each goroutine
    origin,     \* how each Logger was made: the constructor and its inputs
    ncalls,     \* logging calls started so far
    nfails      \* failed Writes so far

vars == <<ProjectID, logger, mu, stream, owner, nwrites, pc, call, origin,
          ncalls, nfails>>

---------------------------------------------------------------------------
(* Bounds of the model. *)

\* logging calls in one behaviour of the concurrent specification
MaxCalls == 2

\* failed Writes in one behaviour
MaxFails == 1

\* length of the generated headers in the trace specification
MaxHeaderLen == 3

---------------------------------------------------------------------------
(* Text helpers: package strings and bytes. *)

RECURSIVE Concat(_)
\* the concatenation of a sequence of byte sequences
Concat(ss) == IF ss = <<>> THEN <<>> ELSE Head(ss) \o Concat(Tail(ss))

\* strings.Repeat for a one-byte c
Repeat(c, n) == [i \in 1..n |-> c]

\* strings.IndexByte: 0-based index of the first c in h, -1 if none
IndexByte(h, c) ==
    IF \E i \in 1..Len(h) : h[i] = c
    THEN (CHOOSE i \in 1..Len(h) : h[i] = c /\ \A j \in 1..(i - 1) : h[j] # c) - 1
    ELSE -1

\* strings.Contains
Contains(h, sub) ==
    \E i \in 1..(Len(h) - Len(sub) + 1) : SubSeq(h, i, i + Len(sub) - 1) = sub

\* strings.Count(t, c) for a one-byte c
Count(t, c) == Cardinality({i \in 1..Len(t) : t[i] = c})

\* strings.TrimLeft: drop the leading bytes that are in cutset
TrimLeft(t, cutset) ==
    IF \A i \in 1..Len(t) : t[i] \in cutset THEN <<>>
    ELSE SubSeq(t, CHOOSE i \in 1..Len(t) :
                       t[i] \notin cutset /\ \A j \in 1..(i - 1) : t[j] \in cutset,
                Len(t))

\* bytes.TrimRight: drop the trailing bytes that are in cutset
TrimRight(t, cutset) ==
    IF \A i \in 1..Len(t) : t[i] \in cutset THEN <<>>
    ELSE SubSeq(t, 1, CHOOSE i \in 1..Len(t) :
                          t[i] \notin cutset /\ \A j \in (i + 1)..Len(t) : t[j] \in cutset)

\* Go's h[i:] and h[:i] with 0-based i
SliceFrom(h, i) == SubSeq(h, i + 1, Len(h))
SliceTo(h, i) == SubSeq(h, 1, i)

---------------------------------------------------------------------------
(* Go values handed to the library as interface{} and their encoding by    *)
(* encoding/json with SetEscapeHTML(false).                                *)

NoFields == <<>>
GoNil == [kind |-> "nil", str |-> <<>>, fields |-> NoFields]
GoString(s) == [kind |-> "string", str |-> s, fields |-> NoFields]
GoInt(digits) == [kind |-> "int", str |-> digits, fields |-> NoFields]
GoSlice(elems) == [kind |-> "slice", str |-> <<>>, fields |-> elems]
\* a struct (or pointer to struct): fields is a sequence of <<name, value>>
GoStruct(fs) == [kind |-> "struct", str |-> <<>>, fields |-> fs]
\* a value whose MarshalJSON returns an error (failingType in the tests)
GoFailing == [kind |-> "failing", str |-> <<>>, fields |-> NoFields]
\* a value whose MarshalJSON panics with value p (panickingType in the tests)
GoPanicking(p) == [kind |-> "panicking", str |-> p, fields |-> NoFields]

\* an escaping that leaves a newline as it is
EscapeByteRawNewline(c, escapeHTML) ==
    CASE c = "\"" -> <<"\\", "\"">>
      [] c = "\\" -> <<"\\", "\\">>
      [] c = "\t" -> <<"\\", "t">>
      [] OTHER -> <<c>>

\* encoding/json: one byte of a string, escaped (escapeHTML as the option)
EscapeByte(c, escapeHTML) ==
    CASE c = "\"" -> <<"\\", "\"">>
      [] c = "\\" -> <<"\\", "\\">>
      [] c = "\n" -> <<"\\", "n">>
      [] c = "\t" -> <<"\\", "t">>
      [] escapeHTML /\ c = "&" -> <<"\\", "u", "0", "0", "2", "6">>
      [] escapeHTML /\ c = "<" -> <<"\\", "u", "0", "0", "3", "c">>
      [] escapeHTML /\ c = ">" -> <<"\\", "u", "0", "0", "3", "e">>
      [] OTHER -> <<c>>

RECURSIVE EscapeBytes(_, _)
\* every byte of s escaped, in order (computed by halves)
EscapeBytes(s, escapeHTML) ==
    IF s = <<>> THEN <<>>
    ELSE IF Len(s) = 1 THEN EscapeByte(s[1], escapeHTML)
    ELSE EscapeBytes(SubSeq(s, 1, Len(s) \div 2), escapeHTML)
         \o EscapeBytes(SubSeq(s, Len(s) \div 2 + 1, Len(s)), escapeHTML)

\* encoding/json: a Go string as a JSON string
JSONString(s, escapeHTML) == <<"\"">> \o EscapeBytes(s, escapeHTML) \o <<"\"">>

RECURSIVE EncodeValue(_, _)
RECURSIVE EncodeElems(_, _)
RECURSIVE EncodeFields(_, _)
\* encoding/json: the compact encoding of a value that encodes without error
EncodeValue(v, escapeHTML) ==
    CASE v.kind = "nil" -> <<"n", "u", "l", "l">>
      [] v.kind = "string" -> JSONString(v.str, escapeHTML)
      [] v.kind = "int" -> v.str
      [] v.kind = "slice" -> <<"[">> \o EncodeElems(v.fields, escapeHTML) \o <<"]">>
      [] v.kind = "struct" -> <<"{">> \o EncodeFields(v.fields, escapeHTML) \o <<"}">>
      [] OTHER -> <<>>

EncodeElems(es, escapeHTML) ==
    IF es = <<>> THEN <<>>
    ELSE EncodeValue(Head(es), escapeHTML)
         \o (IF Tail(es) = <<>> THEN <<>> ELSE <<",">>)
         \o EncodeElems(Tail(es), escapeHTML)

EncodeFields(fs, escapeHTML) ==
    IF fs = <<>> THEN <<>>
    ELSE JSONString(Head(fs)[1], escapeHTML) \o <<":">>
         \o EncodeValue(Head(fs)[2], escapeHTML)
         \o (IF Tail(fs) = <<>> THEN <<>> ELSE <<",">>)
         \o EncodeFields(Tail(fs), escapeHTML)

RECURSIVE EncodeFails(_)
\* encoding/json: the encoding returns an error (a Marshaler returned one)
EncodeFails(v) ==
    \/ v.kind = "failing"
    \/ v.kind = "slice" /\ \E i \in 1..Len(v.fields) : EncodeFails(v.fields[i])
    \/ v.kind = "struct" /\ \E i \in 1..Len(v.fields) : EncodeFails(v.fields[i][2])

\* encoding/json re-panics whatever a Marshaler panics with
EncodePanics(v) == v.kind = "panicking"

\* marshalJSON: json.NewEncoder(buf), SetEscapeHTML(false), Encode(in), then
\* the final new line trimmed; res is nil when err is set
marshalJSON(in) ==
    IF EncodeFails(in) THEN [err |-> TRUE, res |-> <<>>]
    ELSE [err |-> FALSE,
          res |-> TrimRight(EncodeValue(in, FALSE) \o <<"\n">>, {"\n"})]

---------------------------------------------------------------------------
(* Severities. *)

debugsev == 0
infosev == 100
noticesev == 200
warningsev == 300
errorsev == 400
criticalsev == 500
alertsev == 600
emergencysev == 700

Severities == {debugsev, infosev, noticesev, warningsev,
               errorsev, criticalsev, alertsev, emergencysev}

\* severity.MarshalJSON: the bytes returned
MarshalJSON(s) ==
    CASE s = debugsev -> <<"\"","D","E","B","U","G","\"">>
      [] s = infosev -> <<"\"","I","N","F","O","\"">>
      [] s = noticesev -> <<"\"","N","O","T","I","C","E","\"">>
      [] s = warningsev -> <<"\"","W","A","R","N","I","N","G","\"">>
      [] s = errorsev -> <<"\"","E","R","R","O","R","\"">>
      [] s = criticalsev -> <<"\"","C","R","I","T","I","C","A","L","\"">>
      [] s = alertsev -> <<"\"","A","L","E","R","T","\"">>
      [] s = emergencysev -> <<"\"","E","M","E","R","G","E","N","C","Y","\"">>
      [] OTHER -> <<"\"","U","N","K","N","O","W","N","\"">>

\* a MarshalJSON that knows no severity
MarshalJSONErrAlways(s) == TRUE

\* severity.MarshalJSON: the error returned is not nil
MarshalJSONErr(s) == s \notin Severities

\* ERROR itself taken for informational
IsErrorishAbove(s) == s > errorsev

\* severity.IsErrorish
IsErrorish(s) == s >= errorsev

---------------------------------------------------------------------------
(* Package fmt, for operands that are strings. *)

RECURSIVE Sprint(_)
\* fmt.Sprint: no space is added between operands that are strings
Sprint(v) == IF v = <<>> THEN <<>> ELSE Head(v) \o Sprint(Tail(v))

RECURSIVE JoinSpaces(_)
JoinSpaces(v) ==
    IF v = <<>> THEN <<>>
    ELSE Head(v) \o (IF Tail(v) = <<>> THEN <<>> ELSE <<" ">>) \o JoinSpaces(Tail(v))

\* fmt.Sprintln: spaces between the operands and a newline appended
Sprintln(v) == JoinSpaces(v) \o <<"\n">>

RECURSIVE Sprintf(_, _)
\* fmt.Sprintf for the verbs %s and %% (a %s without operand prints nothing here;
\* the formats used always have their operands)
Sprintf(format, v) ==
    IF format = <<>> THEN <<>>
    ELSE IF Head(format) = "%" /\ Len(format) >= 2
    THEN IF format[2] = "s"
         THEN (IF v = <<>> THEN <<>> ELSE Head(v))
              \o Sprintf(SubSeq(format, 3, Len(format)), IF v = <<>> THEN v ELSE Tail(v))
         ELSE <<format[2]>> \o Sprintf(SubSeq(format, 3, Len(format)), v)
    ELSE <<Head(format)>> \o Sprintf(Tail(format), v)

---------------------------------------------------------------------------
(* Loggers and streams. *)

NoWriter == "nil"
Stdout == "os.Stdout"
Stderr == "os.Stderr"
Buf == "buf"
Writers == {Stdout, Stderr, Buf}

NoOne == "none"
Goroutines == {"g1", "g2"}

std == "std"
LoggerIds == {std, "la", "lb"}

\* the zero Logger: &Logger{}
ZeroLogger == [made |-> TRUE, out |-> NoWriter, err |-> NoWriter, trace |-> <<>>]
NotMade == [made |-> FALSE, out |-> NoWriter, err |-> NoWriter, trace |-> <<>>]

HexCutset == {"0","1","2","3","4","5","6","7","8","9","a","b","c","d","e","f",
              "A","B","C","D","E","F","x","X"}

\* the longest trace id ForRequest accepts
MaxTraceIDLen == 256

\* a ForRequest that takes trace ids of up to 255 bytes only
ForRequestShorter(project, h) ==
    LET i == IndexByte(h, "/")
        t == SliceTo(h, i)
        b == marshalJSON(GoString(<<"p","r","o","j","e","c","t","s","/">> \o project
                                  \o <<"/","t","r","a","c","e","s","/">> \o t))
    IN  IF project # <<>> /\ i > 0 /\ i < MaxTraceIDLen
           /\ ~Contains(SliceFrom(h, i), <<";","o","=","0">>)
           /\ TrimLeft(t, HexCutset) = <<>>
           /\ Count(t, "0") # Len(t)
           /\ ~b.err
        THEN [ZeroLogger EXCEPT !.trace = b.res]
        ELSE ZeroLogger

\* a ForRequest that does not look at ProjectID
ForRequestAnyProject(project, h) ==
    LET i == IndexByte(h, "/")
        t == SliceTo(h, i)
        b == marshalJSON(GoString(<<"p","r","o","j","e","c","t","s","/">> \o project
                                  \o <<"/","t","r","a","c","e","s","/">> \o t))
    IN  IF i > 0 /\ i <= MaxTraceIDLen
           /\ ~Contains(SliceFrom(h, i), <<";","o","=","0">>)
           /\ TrimLeft(t, HexCutset) = <<>>
           /\ Count(t, "0") # Len(t)
           /\ ~b.err
        THEN [ZeroLogger EXCEPT !.trace = b.res]
        ELSE ZeroLogger

\* a ForRequest that takes a trace id of zeros for a trace id
ForRequestZeros(project, h) ==
    LET i == IndexByte(h, "/")
        t == SliceTo(h, i)
        b == marshalJSON(GoString(<<"p","r","o","j","e","c","t","s","/">> \o project
                                  \o <<"/","t","r","a","c","e","s","/">> \o t))
    IN  IF project # <<>> /\ i > 0 /\ i <= MaxTraceIDLen
           /\ ~Contains(SliceFrom(h, i), <<";","o","=","0">>)
           /\ TrimLeft(t, HexCutset) = <<>>
           /\ ~b.err
        THEN [ZeroLogger EXCEPT !.trace = b.res]
        ELSE ZeroLogger

\* ForRequest: the Logger made for a request whose X-Cloud-Trace-Context header is h
\* (Header.Get gives "" for an absent header) under ProjectID = project
ForRequest(project, h) ==
    LET i == IndexByte(h, "/")
        t == SliceTo(h, i)
        b == marshalJSON(GoString(<<"p","r","o","j","e","c","t","s","/">> \o project
                                  \o <<"/","t","r","a","c","e","s","/">> \o t))
    IN  IF project # <<>> /\ i > 0 /\ i <= MaxTraceIDLen
        THEN IF Contains(SliceFrom(h, i), <<";","o","=","0">>) THEN ZeroLogger
             ELSE IF TrimLeft(t, HexCutset) # <<>> THEN ZeroLogger
             ELSE IF Count(t, "0") # Len(t)
                  THEN IF b.err THEN ZeroLogger
                       ELSE [ZeroLogger EXCEPT !.trace = b.res]
                  ELSE ZeroLogger
        ELSE ZeroLogger

\* New: a Logger that streams all its messages to w
New(w) == [made |-> TRUE, out |-> w, err |-> w, trace |-> <<>>]

\* Logger.writer
writer(l, s) ==
    IF IsErrorish(s)
    THEN IF l.err # NoWriter THEN l.err ELSE Stderr
    ELSE IF l.out # NoWriter THEN l.out ELSE Stdout

---------------------------------------------------------------------------
(* The Write calls a logging call makes, in order. *)

KeyMessage == <<"\"","m","e","s","s","a","g","e","\"",":">>
KeySeverity == <<"\"","s","e","v","e","r","i","t","y","\"",":">>
KeyTrace == <<"\"","l","o","g","g","i","n","g",".","g","o","o","g","l","e","a","p","i","s",".","c","o","m","/","t","r","a","c","e","\"",":">>
KeyValue == <<"\"","v","a","l","u","e","\"",":">>
CannotMarshal == <<"{","\"","l","o","g","L","i","b","M","s","g","\"",":","\"","c","a","n","n","o","t"," ","m","a","r","s","h","a","l"," ","t","h","e"," ","a","r","g","u","m","e","n","t"," ","a","s"," ","j","s","o","n","P","a","y","l","o","a","d","\"","}">>

\* an entry whose severity comes before its message
EncodeEntrySeverityFirst(msg, s, trace, escapeHTML) ==
    <<"{">> \o (IF s # 0 THEN KeySeverity \o MarshalJSON(s) \o <<",">> ELSE <<>>)
    \o KeyMessage \o JSONString(msg, escapeHTML)
    \o (IF Len(trace) # 0 THEN <<",">> \o KeyTrace \o trace ELSE <<>>)
    \o <<"}">>

\* an entry whose Message is tagged omitempty as well
EncodeEntryOmitMessage(msg, s, trace, escapeHTML) ==
    LET m == IF msg # <<>> THEN << KeyMessage \o JSONString(msg, escapeHTML) >> ELSE <<>>
        v == IF s # 0 THEN << KeySeverity \o MarshalJSON(s) >> ELSE <<>>
        r == IF Len(trace) # 0 THEN << KeyTrace \o trace >> ELSE <<>>
        all == m \o v \o r
    IN  <<"{">>
        \o Concat([j \in 1..Len(all) |-> (IF j > 1 THEN <<",">> ELSE <<>>) \o all[j]])
        \o <<"}">>

\* type entry, encoded by encoding/json: Message always, Severity and Trace
\* with omitempty (a zero int32, an empty RawMessage are left out)
EncodeEntry(msg, s, trace, escapeHTML) ==
    <<"{">> \o KeyMessage \o JSONString(msg, escapeHTML)
    \o (IF s # 0 THEN <<",">> \o KeySeverity \o MarshalJSON(s) ELSE <<>>)
    \o (IF Len(trace) # 0 THEN <<",">> \o KeyTrace \o trace ELSE <<>>)
    \o <<"}">>

\* a logs whose Encoder escapes HTML, as an Encoder does by default
logsEscaping(s, l, msg) ==
    IF s # 0 /\ MarshalJSONErr(s) THEN <<>>
    ELSE << EncodeEntry(msg, s, l.trace, TRUE) \o <<"\n">> >>

\* logs: Encoder.Encode(entry) makes one Write of the entry and a newline, and
\* none when encoding fails
logs(s, l, msg) ==
    IF s # 0 /\ MarshalJSONErr(s) THEN <<>>
    ELSE << EncodeEntry(msg, s, l.trace, FALSE) \o <<"\n">> >>

\* a jsonStruct that is set for arrays too
isJSONStructOrArray(buf0) == Len(buf0) > 0 /\ buf0[1] \in {"{", "["}

\* logRawJSON: jsonStruct, whether buf is to be spliced as an object
isJSONStruct(buf0) == Len(buf0) > 0 /\ buf0[1] = "{"

\* a comma before the payload whatever the payload
payloadCommaAlways(buf, comma) == <<comma>>

\* logRawJSON: the Write of the comma before the payload's own fields, made
\* only when the payload has any
payloadComma(buf, comma) ==
    IF Len(buf) > 0 /\ buf[1] # "}" THEN <<comma>> ELSE <<>>

\* a logRawJSON whose severity is written after a comma whatever came before
logRawJSONCommaFirst(s, l, msg, buf0) ==
    LET msgj == IF msg # <<>> THEN marshalJSON(GoString(msg)).res ELSE <<>>
        jsonStruct == isJSONStruct(buf0)
        buf == IF jsonStruct THEN Tail(buf0) ELSE buf0
        wmsg == IF msg # <<>> THEN <<KeyMessage, msgj>> ELSE <<>>
        comma1 == IF msg # <<>> THEN <<",">> ELSE <<>>
        sevok == ~MarshalJSONErr(s)
        wsev == IF sevok THEN << <<",">>, KeySeverity, MarshalJSON(s)>> ELSE <<>>
        comma2 == IF sevok THEN <<",">> ELSE comma1
        wtrace == IF Len(l.trace) # 0 THEN <<comma2, KeyTrace, l.trace>> ELSE <<>>
        comma3 == IF Len(l.trace) # 0 THEN <<",">> ELSE comma2
        wrest == IF ~jsonStruct
                 THEN <<comma3, KeyValue, buf, <<"}", "\n">> >>
                 ELSE payloadComma(buf, comma3)
                      \o <<buf>>
                      \o (IF buf[Len(buf)] # "\n" THEN << <<"\n">> >> ELSE <<>>)
    IN  << <<"{">> >> \o wmsg \o wsev \o wtrace \o wrest

\* logRawJSON: the arguments of its Write calls, in order
logRawJSON(s, l, msg, buf0) ==
    LET msgj == IF msg # <<>> THEN marshalJSON(GoString(msg)).res ELSE <<>>
        jsonStruct == isJSONStruct(buf0)
        buf == IF jsonStruct THEN Tail(buf0) ELSE buf0
        comma0 == <<>>
        wmsg == IF msg # <<>> THEN <<KeyMessage, msgj>> ELSE <<>>
        comma1 == IF msg # <<>> THEN <<",">> ELSE comma0
        sevok == ~MarshalJSONErr(s)
        wsev == IF sevok THEN <<comma1, KeySeverity, MarshalJSON(s)>> ELSE <<>>
        comma2 == IF sevok THEN <<",">> ELSE comma1
        wtrace == IF Len(l.trace) # 0 THEN <<comma2, KeyTrace, l.trace>> ELSE <<>>
        comma3 == IF Len(l.trace) # 0 THEN <<",">> ELSE comma2
        wrest == IF ~jsonStruct
                 THEN <<comma3, KeyValue, buf, <<"}", "\n">> >>
                 ELSE payloadComma(buf, comma3)
                      \o <<buf>>
                      \o (IF buf[Len(buf)] # "\n" THEN << <<"\n">> >> ELSE <<>>)
    IN  << <<"{">> >> \o wmsg \o wsev \o wtrace \o wrest

\* a logj that gives up when the item does not encode
logjDropping(s, l, msg, item) ==
    LET b == marshalJSON(item)
    IN  IF b.err THEN <<>> ELSE logRawJSON(s, l, msg, b.res)

\* logj: the Write calls of a structured call whose item encodes or fails to
logj(s, l, msg, item) ==
    LET b == marshalJSON(item)
    IN  IF b.err THEN logRawJSON(s, l, msg, CannotMarshal)
        ELSE logRawJSON(s, l, msg, b.res)

---------------------------------------------------------------------------
(* The state machine.  A logging call is a sequence of atomic steps of its  *)
(* goroutine: the call up to mu.Lock(), the Lock, each Write, and the       *)
(* deferred Unlock with the return.                                         *)

\* what a call that has not panicked by its own panic() carries, and the
\* exit status of a process that has not exited
NotThrown == [kind |-> "none", str |-> <<>>, fields |-> NoFields]
NoExit == -1

\* the family of a call: a severity method, Print*, Fatal*, Panic*
FamLog == "log"
FamPrint == "print"
FamFatal == "fatal"
FamPanic == "panic"

NoCall == [id |-> 0, l |-> std, s |-> infosev, shape |-> "none", v |-> <<>>,
           msg |-> <<>>, item |-> GoNil, w |-> NoWriter, frags |-> <<>>,
           failed |-> FALSE, ret |-> FALSE, pval |-> <<>>,
           fam |-> "log", thrown |-> NotThrown, exit |-> NoExit]

NoOrigin == [by |-> "zero", h |-> <<>>, project |-> <<>>, w |-> NoWriter]

InitWith(projects) ==
    /\ ProjectID \in projects
    /\ logger = [l \in LoggerIds |-> IF l = std THEN ZeroLogger ELSE NotMade]
    /\ mu = [l \in LoggerIds |-> NoOne]
    /\ stream = [w \in Writers |-> <<>>]
    /\ owner = [w \in Writers |-> <<>>]
    /\ nwrites = <<>>
    /\ pc = [t \in Goroutines |-> "idle"]
    /\ call = [t \in Goroutines |-> NoCall]
    /\ origin = [l \in LoggerIds |-> NoOrigin]
    /\ ncalls = 0
    /\ nfails = 0

\* A Logger is made before the logging starts (it is used only after it is
\* made, and making it touches no stream and no lock); the slots are filled
\* in order, "la" first.
NextSlot(l) ==
    /\ ~logger[l].made
    /\ l = "lb" => logger["la"].made
    /\ ncalls = 0

\* l := ForRequest(request), the request carrying one of the headers
DoForRequest(l, headers) ==
    /\ NextSlot(l)
    /\ \E h \in headers :
          /\ logger' = [logger EXCEPT ![l] = ForRequest(ProjectID, h)]
          /\ origin' = [origin EXCEPT ![l] = [by |-> "ForRequest", h |-> h,
                                              project |-> ProjectID, w |-> NoWriter]]
    /\ UNCHANGED <<ProjectID, mu, stream, owner, nwrites, pc, call, ncalls, nfails>>

\* an assignment to ProjectID that also re-traces the Loggers made so far
SetProjectIDRetracing(projects) ==
    /\ \E p \in projects \ {ProjectID} :
          /\ ProjectID' = p
          /\ logger' = [l \in LoggerIds |->
                           IF origin[l].by = "ForRequest"
                           THEN ForRequest(p, origin[l].h) ELSE logger[l]]
    /\ UNCHANGED <<mu, stream, owner, nwrites, pc, call, origin, ncalls, nfails>>

\* log.ProjectID = p, by the program that uses the package
SetProjectID(projects) ==
    /\ \E p \in projects \ {ProjectID} : ProjectID' = p
    /\ UNCHANGED <<logger, mu, stream, owner, nwrites, pc, call, origin, ncalls, nfails>>

\* l := New(w, "", 0)
DoNew(l, ws) ==
    /\ NextSlot(l)
    /\ \E w \in ws :
          /\ logger' = [logger EXCEPT ![l] = New(w)]
          /\ origin' = [origin EXCEPT ![l] = [NoOrigin EXCEPT !.by = "New", !.w = w]]
    /\ UNCHANGED <<ProjectID, mu, stream, owner, nwrites, pc, call, ncalls, nfails>>

\* the message of a plain call: log, logln, logf
FormatMsg(shape, v) ==
    CASE shape = "print" -> Sprint(v)
      [] shape = "ln" -> Sprintln(v)
      [] shape = "f" -> Sprintf(Head(v), Tail(v))

\* l.Debug(v...) .. l.Emergency(v...), and the ln and f variants: up to mu.Lock()
BeginPlain(t, limit, sevs, shapes, args) ==
    /\ pc[t] \in {"idle", "panicked"}
    /\ ncalls < limit
    /\ \E l \in LoggerIds, s \in sevs, shape \in shapes, v \in args :
          /\ logger[l].made
          /\ LET msg == FormatMsg(shape, v)
             IN  call' = [call EXCEPT ![t] =
                            [NoCall EXCEPT !.id = ncalls + 1, !.l = l, !.s = s,
                                           !.shape = shape, !.v = v, !.msg = msg,
                                           !.w = writer(logger[l], s),
                                           !.frags = logs(s, logger[l], msg)]]
    /\ pc' = [pc EXCEPT ![t] = "lock"]
    /\ ncalls' = ncalls + 1
    /\ nwrites' = Append(nwrites, 0)
    /\ UNCHANGED <<ProjectID, logger, mu, stream, owner, origin, nfails>>

\* a logj that recovers the panic
logjRecovers(item) == FALSE

\* logj: a panic of the item's MarshalJSON leaves logj and the method that
\* called it (no recover anywhere in the package)
logjPanics(item) == EncodePanics(item)

\* a structured call that encodes the item under the lock, with no deferred
\* Unlock: the panic leaves with the lock held
BeginJPanicsHolding(t, limit, sevs, msgs, items) ==
    /\ pc[t] \in {"idle", "panicked"}
    /\ ncalls < limit
    /\ \E l \in LoggerIds, s \in sevs, msg \in msgs, item \in items :
          /\ logger[l].made
          /\ LET c == [NoCall EXCEPT !.id = ncalls + 1, !.l = l, !.s = s,
                                     !.shape = "j", !.msg = msg, !.item = item]
             IN  IF logjPanics(item)
                 THEN /\ mu[l] = NoOne
                      /\ mu' = [mu EXCEPT ![l] = t]
                      /\ call' = [call EXCEPT ![t] = [c EXCEPT !.pval = item.str]]
                      /\ pc' = [pc EXCEPT ![t] = "panicked"]
                 ELSE /\ mu' = mu
                      /\ call' = [call EXCEPT ![t] =
                                    [c EXCEPT !.w = writer(logger[l], s),
                                              !.frags = logj(s, logger[l], msg, item)]]
                      /\ pc' = [pc EXCEPT ![t] = "lock"]
    /\ ncalls' = ncalls + 1
    /\ nwrites' = Append(nwrites, 0)
    /\ UNCHANGED <<ProjectID, logger, stream, owner, origin, nfails>>

\* l.Debugj(msg, v) .. l.Emergencyj(msg, v): up to mu.Lock(), or to the panic
BeginJ(t, limit, sevs, msgs, items) ==
    /\ pc[t] \in {"idle", "panicked"}
    /\ ncalls < limit
    /\ \E l \in LoggerIds, s \in sevs, msg \in msgs, item \in items :
          /\ logger[l].made
          /\ LET c == [NoCall EXCEPT !.id = ncalls + 1, !.l = l, !.s = s,
                                     !.shape = "j", !.msg = msg, !.item = item]
             IN  IF logjPanics(item)
                 THEN /\ call' = [call EXCEPT ![t] = [c EXCEPT !.pval = item.str]]
                      /\ pc' = [pc EXCEPT ![t] = "panicked"]
                 ELSE /\ call' = [call EXCEPT ![t] =
                                    [c EXCEPT !.w = writer(logger[l], s),
                                              !.frags = logj(s, logger[l], msg, item)]]
                      /\ pc' = [pc EXCEPT ![t] = "lock"]
    /\ ncalls' = ncalls + 1
    /\ nwrites' = Append(nwrites, 0)
    /\ UNCHANGED <<ProjectID, logger, mu, stream, owner, origin, nfails>>

\* a Lock that does not wait for the holder
AcquireNoWait(t) ==
    /\ pc[t] = "lock"
    /\ mu' = [mu EXCEPT ![call[t].l] = t]
    /\ pc' = [pc EXCEPT ![t] = "write"]
    /\ UNCHANGED <<ProjectID, logger, stream, owner, nwrites, call, origin,
                   ncalls, nfails>>

\* l.mu.Lock()
Acquire(t) ==
    /\ pc[t] = "lock"
    /\ mu[call[t].l] = NoOne
    /\ mu' = [mu EXCEPT ![call[t].l] = t]
    /\ pc' = [pc EXCEPT ![t] = "write"]
    /\ UNCHANGED <<ProjectID, logger, stream, owner, nwrites, call, origin,
                   ncalls, nfails>>

\* the stream takes the first n bytes of p from call id
Received(w, id, p, n) ==
    /\ stream' = [stream EXCEPT ![w] = @ \o SubSeq(p, 1, n)]
    /\ owner' = [owner EXCEPT ![w] = @ \o [i \in 1..n |-> id]]
    /\ nwrites' = [nwrites EXCEPT ![id] = @ + 1]

\* w.Write(p) returns without error
WriteOK(t) ==
    /\ pc[t] = "write"
    /\ call[t].frags # <<>>
    /\ LET p == Head(call[t].frags)
       IN  Received(call[t].w, call[t].id, p, Len(p))
    /\ call' = [call EXCEPT ![t].frags = Tail(@)]
    /\ UNCHANGED <<ProjectID, logger, mu, pc, origin, ncalls, nfails>>

\* a failed Write after which the call goes on writing
WriteFailRetrying(t) ==
    /\ pc[t] = "write"
    /\ call[t].frags # <<>>
    /\ nfails < MaxFails
    /\ LET p == Head(call[t].frags)
       IN  \E n \in {0, 1} :
              /\ n < Len(p) \/ n = 0
              /\ Received(call[t].w, call[t].id, p, n)
    /\ call' = [call EXCEPT ![t].failed = TRUE]
    /\ nfails' = nfails + 1
    /\ UNCHANGED <<ProjectID, logger, mu, pc, origin, ncalls>>

\* a failed Write after which the call goes on with the fragments that follow
WriteFailSkipping(t) ==
    /\ pc[t] = "write"
    /\ call[t].frags # <<>>
    /\ nfails < MaxFails
    /\ LET p == Head(call[t].frags)
       IN  \E n \in {0, 1} :
              /\ n < Len(p) \/ n = 0
              /\ Received(call[t].w, call[t].id, p, n)
    /\ call' = [call EXCEPT ![t].frags = Tail(@), ![t].failed = TRUE]
    /\ nfails' = nfails + 1
    /\ UNCHANGED <<ProjectID, logger, mu, pc, origin, ncalls>>

\* w.Write(p) returns an error, having taken none or some of p: the call
\* makes no further Write
WriteFail(t) ==
    /\ pc[t] = "write"
    /\ call[t].frags # <<>>
    /\ nfails < MaxFails
    /\ LET p == Head(call[t].frags)
       IN  \E n \in {0, 1} :
              /\ n < Len(p) \/ n = 0
              /\ Received(call[t].w, call[t].id, p, n)
    /\ call' = [call EXCEPT ![t].frags = <<>>, ![t].failed = TRUE]
    /\ nfails' = nfails + 1
    /\ UNCHANGED <<ProjectID, logger, mu, pc, origin, ncalls>>

\* a return that leaves the lock held
ReturnHolding(t) ==
    /\ pc[t] = "write"
    /\ call[t].frags = <<>>
    /\ call[t].fam \notin {FamFatal, FamPanic}
    /\ pc' = [pc EXCEPT ![t] = "idle"]
    /\ call' = [call EXCEPT ![t].ret = TRUE]
    /\ UNCHANGED <<ProjectID, logger, mu, stream, owner, nwrites, origin, ncalls, nfails>>

\* the deferred l.mu.Unlock() and the return to the caller
Return(t) ==
    /\ pc[t] = "write"
    /\ call[t].frags = <<>>
    /\ call[t].fam \notin {FamFatal, FamPanic}
    /\ mu' = [mu EXCEPT ![call[t].l] = NoOne]
    /\ pc' = [pc EXCEPT ![t] = "idle"]
    /\ call' = [call EXCEPT ![t].ret = TRUE]
    /\ UNCHANGED <<ProjectID, logger, stream, owner, nwrites, origin, ncalls, nfails>>

\* a Print family of the zero severity
printsevZero == debugsev

\* the severity Print, Println, Printf and Printj log with
printsev == infosev

\* l.Print(v...), l.Println(v...), l.Printf(format, v...): up to mu.Lock()
BeginPrint(t, limit, shapes, args) ==
    /\ pc[t] \in {"idle", "panicked"}
    /\ ncalls < limit
    /\ \E l \in LoggerIds, shape \in shapes, v \in args :
          /\ logger[l].made
          /\ LET msg == FormatMsg(shape, v)
             IN  call' = [call EXCEPT ![t] =
                            [NoCall EXCEPT !.id = ncalls + 1, !.l = l, !.s = printsev,
                                           !.shape = shape, !.v = v, !.msg = msg,
                                           !.fam = FamPrint,
                                           !.w = writer(logger[l], printsev),
                                           !.frags = logs(printsev, logger[l], msg)]]
    /\ pc' = [pc EXCEPT ![t] = "lock"]
    /\ ncalls' = ncalls + 1
    /\ nwrites' = Append(nwrites, 0)
    /\ UNCHANGED <<ProjectID, logger, mu, stream, owner, origin, nfails>>

\* l.Printj(msg, v): up to mu.Lock(), or to the panic of the item's MarshalJSON
BeginPrintj(t, limit, msgs, items) ==
    /\ pc[t] \in {"idle", "panicked"}
    /\ ncalls < limit
    /\ \E l \in LoggerIds, msg \in msgs, item \in items :
          /\ logger[l].made
          /\ LET c == [NoCall EXCEPT !.id = ncalls + 1, !.l = l, !.s = printsev,
                                     !.shape = "j", !.msg = msg, !.item = item,
                                     !.fam = FamPrint]
             IN  IF logjPanics(item)
                 THEN /\ call' = [call EXCEPT ![t] = [c EXCEPT !.pval = item.str]]
                      /\ pc' = [pc EXCEPT ![t] = "panicked"]
                 ELSE /\ call' = [call EXCEPT ![t] =
                                    [c EXCEPT !.w = writer(logger[l], printsev),
                                              !.frags = logj(printsev, logger[l], msg, item)]]
                      /\ pc' = [pc EXCEPT ![t] = "lock"]
    /\ ncalls' = ncalls + 1
    /\ nwrites' = Append(nwrites, 0)
    /\ UNCHANGED <<ProjectID, logger, mu, stream, owner, origin, nfails>>

\* l.Fatal(v...), l.Fatalln, l.Fatalf, l.Panic(v...), l.Panicln, l.Panicf: the
\* call of log, logln, logf with criticalsev, up to mu.Lock()
BeginEndPlain(t, limit, fams, shapes, args) ==
    /\ pc[t] \in {"idle", "panicked"}
    /\ ncalls < limit
    /\ \E l \in LoggerIds, fam \in fams, shape \in shapes, v \in args :
          /\ logger[l].made
          /\ LET msg == FormatMsg(shape, v)
             IN  call' = [call EXCEPT ![t] =
                            [NoCall EXCEPT !.id = ncalls + 1, !.l = l, !.s = criticalsev,
                                           !.shape = shape, !.v = v, !.msg = msg,
                                           !.fam = fam,
                                           !.w = writer(logger[l], criticalsev),
                                           !.frags = logs(criticalsev, logger[l], msg)]]
    /\ pc' = [pc EXCEPT ![t] = "lock"]
    /\ ncalls' = ncalls + 1
    /\ nwrites' = Append(nwrites, 0)
    /\ UNCHANGED <<ProjectID, logger, mu, stream, owner, origin, nfails>>

\* l.Fatalj(msg, v), l.Panicj(msg, v): the call of logj with criticalsev, up
\* to mu.Lock(), or to the panic of the item's MarshalJSON
BeginEndJ(t, limit, fams, msgs, items) ==
    /\ pc[t] \in {"idle", "panicked"}
    /\ ncalls < limit
    /\ \E l \in LoggerIds, fam \in fams, msg \in msgs, item \in items :
          /\ logger[l].made
          /\ LET c == [NoCall EXCEPT !.id = ncalls + 1, !.l = l, !.s = criticalsev,
                                     !.shape = "j", !.msg = msg, !.item = item,
                                     !.fam = fam]
             IN  IF logjPanics(item)
                 THEN /\ call' = [call EXCEPT ![t] = [c EXCEPT !.pval = item.str]]
                      /\ pc' = [pc EXCEPT ![t] = "panicked"]
                 ELSE /\ call' = [call EXCEPT ![t] =
                                    [c EXCEPT !.w = writer(logger[l], criticalsev),
                                              !.frags = logj(criticalsev, logger[l], msg, item)]]
                      /\ pc' = [pc EXCEPT ![t] = "lock"]
    /\ ncalls' = ncalls + 1
    /\ nwrites' = Append(nwrites, 0)
    /\ UNCHANGED <<ProjectID, logger, mu, stream, owner, origin, nfails>>

\* a return into Fatal* or Panic* with the lock still held
ReturnedHolding(t) ==
    /\ pc[t] = "write"
    /\ call[t].frags = <<>>
    /\ call[t].fam \in {FamFatal, FamPanic}
    /\ pc' = [pc EXCEPT ![t] = "ending"]
    /\ UNCHANGED <<ProjectID, logger, mu, stream, owner, nwrites, call, origin,
                   ncalls, nfails>>

\* log, logln, logf or logj returns into Fatal* or Panic*: the deferred
\* l.mu.Unlock() has run
Returned(t) ==
    /\ pc[t] = "write"
    /\ call[t].frags = <<>>
    /\ call[t].fam \in {FamFatal, FamPanic}
    /\ mu' = [mu EXCEPT ![call[t].l] = NoOne]
    /\ pc' = [pc EXCEPT ![t] = "ending"]
    /\ UNCHANGED <<ProjectID, logger, stream, owner, nwrites, call, origin,
                   ncalls, nfails>>

\* os.Exit(1) in Fatal, Fatalln, Fatalf, Fatalj
Exit(t) ==
    /\ pc[t] = "ending"
    /\ call[t].fam = FamFatal
    /\ pc' = [pc EXCEPT ![t] = "exited"]
    /\ call' = [call EXCEPT ![t].exit = 1]
    /\ UNCHANGED <<ProjectID, logger, mu, stream, owner, nwrites, origin,
                   ncalls, nfails>>

\* the operand of panic(): the string log, logln, logf returned in Panic,
\* Panicln, Panicf; the item v in Panicj
panicValue(shape, msg, item) == IF shape = "j" THEN item ELSE GoString(msg)

\* panic(...) in Panic, Panicln, Panicf, Panicj
Panic(t) ==
    /\ pc[t] = "ending"
    /\ call[t].fam = FamPanic
    /\ pc' = [pc EXCEPT ![t] = "panicked"]
    /\ call' = [call EXCEPT ![t].thrown =
                    panicValue(call[t].shape, call[t].msg, call[t].item)]
    /\ UNCHANGED <<ProjectID, logger, mu, stream, owner, nwrites, origin,
                   ncalls, nfails>>

---------------------------------------------------------------------------
(* The glog subpackage (src/glog/glog.go, the version with Logger and       *)
(* ForRequest): Loggers are values with a trace and a span id, there is no  *)
(* lock, and an entry is one Encode on os.Stdout or os.Stderr.              *)

defaultsv == 0
debugsv == 100
infosv == 200
noticesv == 300
warningsv == 400
errorsv == 500
criticalsv == 600
alertsv == 700
emergencysv == 800

GlogSeverities == {defaultsv, debugsv, infosv, noticesv, warningsv,
                   errorsv, criticalsv, alertsv, emergencysv}

\* glog severity.String
String(s) ==
    CASE s = debugsv -> <<"D","E","B","U","G">>
      [] s = infosv -> <<"I","N","F","O">>
      [] s = noticesv -> <<"N","O","T","I","C","E">>
      [] s = warningsv -> <<"W","A","R","N","I","N","G">>
      [] s = errorsv -> <<"E","R","R","O","R">>
      [] s = criticalsv -> <<"C","R","I","T","I","C","A","L">>
      [] s = alertsv -> <<"A","L","E","R","T">>
      [] OTHER -> <<>>

\* glog Logger{}
GlogZeroLogger == [made |-> TRUE, trace |-> <<>>, spanID |-> <<>>]
GlogNotMade == [made |-> FALSE, trace |-> <<>>, spanID |-> <<>>]

\* glog ForRequest: the Logger of a request with header h under ProjectID project
GlogForRequest(project, h) ==
    LET i == IndexByte(h, "/")
        j == IndexByte(SliceFrom(h, i), ";")
    IN  IF project # <<>> /\ i > 0
        THEN [made |-> TRUE,
              trace |-> <<"p","r","o","j","e","c","t","s","/">> \o project
                        \o <<"/","t","r","a","c","e","s","/">> \o SubSeq(h, 1, i),
              spanID |-> IF j > 0 THEN SubSeq(h, i + 1, i + j) ELSE <<>>]
        ELSE GlogZeroLogger

KeySpanID == <<"\"","l","o","g","g","i","n","g",".","g","o","o","g","l","e","a","p","i","s",".","c","o","m","/","s","p","a","n","I","d","\"",":">>

\* glog type entry, encoded by an Encoder with its default options: Message
\* always, the strings Severity, Trace and SpanID with omitempty
GlogEncodeEntry(msg, severity, trace, spanID) ==
    <<"{">> \o KeyMessage \o JSONString(msg, TRUE)
    \o (IF severity # <<>> THEN <<",">> \o KeySeverity \o JSONString(severity, TRUE) ELSE <<>>)
    \o (IF trace # <<>> THEN <<",">> \o KeyTrace \o JSONString(trace, TRUE) ELSE <<>>)
    \o (IF spanID # <<>> THEN <<",">> \o KeySpanID \o JSONString(spanID, TRUE) ELSE <<>>)
    \o <<"}">>

\* glog logs: the stream of severity s
GlogFile(s) == IF s >= errorsv THEN Stderr ELSE Stdout

\* glog logs: the bytes of its one Write
GlogLogs(s, l, msg) == GlogEncodeEntry(msg, String(s), l.trace, l.spanID) \o <<"\n">>

\* l := glog.ForRequest(request), the request carrying one of the headers
DoGlogForRequest(l, headers) ==
    /\ ~logger[l].made
    /\ ncalls = 0
    /\ \E h \in headers :
          /\ logger' = [logger EXCEPT ![l] = GlogForRequest(ProjectID, h)]
          /\ origin' = [origin EXCEPT ![l] = [by |-> "ForRequest", h |-> h,
                                              project |-> ProjectID, w |-> NoWriter]]
    /\ UNCHANGED <<ProjectID, mu, stream, owner, nwrites, pc, call, ncalls, nfails>>

\* glog l.Print(v...) (severity defaultsv), l.Debug(v...) .. l.Emergency(v...)
\* and their ln and f variants: the whole call, which makes one Write
GlogCall(t, limit, sevs, shapes, args) ==
    /\ pc[t] = "idle"
    /\ ncalls < limit
    /\ \E l \in LoggerIds, s \in sevs, shape \in shapes, v \in args :
          /\ logger[l].made
          /\ LET msg == FormatMsg(shape, v)
                 p == GlogLogs(s, logger[l], msg)
             IN  /\ call' = [call EXCEPT ![t] =
                               [NoCall EXCEPT !.id = ncalls + 1, !.l = l, !.s = s,
                                              !.shape = shape, !.v = v, !.msg = msg,
                                              !.w = GlogFile(s), !.ret = TRUE]]
                 /\ nwrites' = Append(nwrites, 1)
                 /\ stream' = [stream EXCEPT ![GlogFile(s)] = @ \o p]
                 /\ owner' = [owner EXCEPT ![GlogFile(s)] =
                                 @ \o [i \in 1..Len(p) |-> ncalls + 1]]
    /\ ncalls' = ncalls + 1
    /\ UNCHANGED <<ProjectID, logger, mu, pc, origin, nfails>>

---------------------------------------------------------------------------
(* Spec: two goroutines log concurrently through the default Logger and a   *)
(* Logger made by New, to streams whose Writes succeed.                     *)

ConcSevs == {infosev, errorsev}
ConcArgs == { <<<<"a">>>> }
ConcMsgs == { <<"a">> }
ConcItems == { GoStruct(<< <<<<"k">>, GoInt(<<"1">>)>> >>) }

Init == InitWith({ <<"p">> })

Next ==
    \/ DoNew("la", {Buf})
    \/ \E t \in Goroutines : BeginPlain(t, MaxCalls, ConcSevs, {"print"}, ConcArgs)
    \/ \E t \in Goroutines : BeginJ(t, MaxCalls, ConcSevs, ConcMsgs, ConcItems)
    \/ \E t \in Goroutines : Acquire(t) \/ WriteOK(t) \/ Return(t)

Spec == Init /\ [][Next]_vars

---------------------------------------------------------------------------
(* SpecReq: two goroutines log concurrently through the default Logger and  *)
(* a Logger made by ForRequest, which share os.Stdout and os.Stderr.        *)

ReqHeaders == { <<"1", "/", "2">> }
ReqMsgs == { <<>> }

InitReq == InitWith({ <<"p">> })

NextReq ==
    \/ DoForRequest("la", ReqHeaders)
    \/ \E t \in Goroutines : BeginPlain(t, MaxCalls, {infosev}, {"print"}, ConcArgs)
    \/ \E t \in Goroutines : BeginJ(t, MaxCalls, {infosev}, ReqMsgs, ConcItems)
    \/ \E t \in Goroutines : Acquire(t) \/ WriteOK(t) \/ Return(t)

SpecReq == InitReq /\ [][NextReq]_vars

---------------------------------------------------------------------------
(* SpecSeq: one goroutine makes one call of any shape, with any severity    *)
(* and argument, through the default Logger or a Logger made by ForRequest  *)
(* or New; a Write may fail.                                                *)

SeqHeaders == { <<"1", "/", "2">>, <<>> }
SeqArgs == { <<<<>>>>, <<<<"a">>>>, <<<<"m", "&", "m">>, <<"b">>>>, <<<<"%", "s">>, <<"x", "\n", "y">>>> }
SeqMsgs == { <<>>, <<"a">>, <<"q", "\"">> }
SeqItems ==
    { GoStruct(<<>>),
      GoStruct(<< <<<<"T">>, GoString(<<"t">>)>> >>),
      GoStruct(<< <<<<"m", "e", "s", "s", "a", "g", "e">>, GoString(<<"x">>)>>,
                  <<<<"n">>, GoInt(<<"1">>)>> >>),
      GoStruct(<< <<<<"o">>, GoStruct(<< <<<<"s", "e", "v", "e", "r", "i", "t", "y">>,
                                           GoSlice(<<GoInt(<<"1">>), GoNil>>)>> >>)>>,
                  <<<<"m", "&", "m">>, GoString(<<"{", ",", "\"">>)>> >>),
      GoNil, GoString(<<"s">>), GoInt(<<"7">>),
      GoSlice(<<GoInt(<<"1">>), GoString(<<"}">>)>>),
      GoFailing, GoPanicking(<<"p">>) }

InitSeq == InitWith({ <<"p">> })

NextSeq ==
    \/ DoForRequest("la", SeqHeaders)
    \/ DoNew("la", {Buf})
    \/ BeginPlain("g1", 1, Severities, {"print", "ln", "f"}, SeqArgs)
    \/ BeginJ("g1", 1, Severities, SeqMsgs, SeqItems)
    \/ Acquire("g1") \/ WriteOK("g1") \/ WriteFail("g1") \/ Return("g1")

SpecSeq == InitSeq /\ [][NextSeq]_vars

---------------------------------------------------------------------------
(* SpecTrace: ForRequest on a wide set of headers and project ids, and one  *)
(* plain or structured call through the Logger it made or the default one.  *)

TraceAlphabet == {"0", "1", "x", "g", "/"}

\* every header of up to MaxHeaderLen bytes of the alphabet
ShortHeaders == UNION {[1..k -> TraceAlphabet] : k \in 0..MaxHeaderLen}

ZeroOne32 == Repeat("0", 31) \o <<"1">>

\* the headers of TestForRequest, headers with an option, and trace ids at
\* and past the longest accepted length
LongHeaders ==
    { ZeroOne32 \o <<"/", "1", ";", "o", "=", "1">>,
      ZeroOne32 \o <<"/", "1">>,
      ZeroOne32 \o <<"/", "1", ";">>,
      ZeroOne32 \o <<"/", "1", ";", "o", "=", "0">>,
      <<"/", "1", "2", "3", ";", "o", "=", "1">>,
      <<"&", "/", "1", "2", "3", ";", "o", "=", "1">>,
      <<"a", "F", "/", ";", "o", "=", "0", "1">>,
      <<"a", "F", "X", "/", "/", ";", "o", "=", "2">>,
      Repeat("0", 32) \o <<"/", "1">>,
      Repeat("a", MaxTraceIDLen) \o <<"/", "1">>,
      Repeat("a", MaxTraceIDLen + 1) \o <<"/", "1">> }

TraceHeaders == ShortHeaders \cup LongHeaders
TraceProjects == { <<>>, <<"p">>, <<"q", "\"">> }

InitTrace == InitWith(TraceProjects)

NextTrace ==
    \/ DoForRequest("la", TraceHeaders)
    \/ BeginPlain("g1", 1, {infosev}, {"print"}, { <<<<"a">>>> })
    \/ BeginJ("g1", 1, {infosev}, { <<"a">> }, { GoStruct(<< <<<<"T">>, GoString(<<"t">>)>> >>) })
    \/ Acquire("g1") \/ WriteOK("g1") \/ WriteFail("g1") \/ Return("g1")

SpecTrace == InitTrace /\ [][NextTrace]_vars

---------------------------------------------------------------------------
(* SpecEnd: one goroutine makes one call of the Fatal or Panic family,      *)
(* through the default Logger or a Logger made by ForRequest or New; a      *)
(* Write may fail.                                                          *)

EndArgs == { <<<<"a">>>>, <<<<"%", "s">>, <<"b">>>> }
EndMsgs == { <<>>, <<"a">> }
EndItems == { GoStruct(<< <<<<"T">>, GoString(<<"t">>)>> >>), GoNil,
              GoFailing, GoPanicking(<<"p">>) }

InitEnd == InitWith({ <<"p">> })

NextEnd ==
    \/ DoForRequest("la", ReqHeaders)
    \/ DoNew("la", {Buf})
    \/ BeginEndPlain("g1", 1, {FamFatal, FamPanic}, {"print", "ln", "f"}, EndArgs)
    \/ BeginEndJ("g1", 1, {FamFatal, FamPanic}, EndMsgs, EndItems)
    \/ Acquire("g1") \/ WriteOK("g1") \/ WriteFail("g1")
    \/ Returned("g1") \/ Exit("g1") \/ Panic("g1")

SpecEnd == InitEnd /\ [][NextEnd]_vars

---------------------------------------------------------------------------
(* SpecPrint: one goroutine makes one call of the Print family or of the    *)
(* Info family, of any shape and argument, through the default Logger or a  *)
(* Logger made by ForRequest or New.                                        *)

InitPrint == InitWith({ <<"p">> })

NextPrint ==
    \/ DoForRequest("la", SeqHeaders)
    \/ DoNew("la", {Buf})
    \/ BeginPrint("g1", 1, {"print", "ln", "f"}, SeqArgs)
    \/ BeginPrintj("g1", 1, SeqMsgs, SeqItems)
    \/ BeginPlain("g1", 1, {infosev}, {"print", "ln", "f"}, SeqArgs)
    \/ BeginJ("g1", 1, {infosev}, SeqMsgs, SeqItems)
    \/ Acquire("g1") \/ WriteOK("g1") \/ Return("g1")

SpecPrint == InitPrint /\ [][NextPrint]_vars

---------------------------------------------------------------------------
(* SpecFail: two goroutines log through the default Logger and a Logger     *)
(* made by New, to streams whose Writes may fail.                           *)

InitFail == InitWith({ <<"p">> })

NextFail ==
    \/ DoNew("la", {Buf})
    \/ \E t \in Goroutines : BeginPlain(t, MaxCalls, {infosev}, {"print"}, ConcArgs)
    \/ \E t \in Goroutines : BeginJ(t, MaxCalls, {infosev}, ConcMsgs, ConcItems)
    \/ \E t \in Goroutines : Acquire(t) \/ WriteOK(t) \/ WriteFail(t) \/ Return(t)

SpecFail == InitFail /\ [][NextFail]_vars

---------------------------------------------------------------------------
(* SpecProject: the program changes ProjectID between the construction of   *)
(* request Loggers and the calls made through them.                         *)

ProjectIDs == { <<>>, <<"p">>, <<"q">> }

InitProject == InitWith(ProjectIDs)

NextProject ==
    \/ SetProjectID(ProjectIDs)
    \/ \E l \in {"la", "lb"} : DoForRequest(l, SeqHeaders)
    \/ BeginPlain("g1", 1, {infosev}, {"print"}, ConcArgs)
    \/ BeginJ("g1", 1, {infosev}, ConcMsgs, ConcItems)
    \/ Acquire("g1") \/ WriteOK("g1") \/ Return("g1")

SpecProject == InitProject /\ [][NextProject]_vars

---------------------------------------------------------------------------
(* SpecLive: two goroutines log through the default Logger, to a stream     *)
(* whose Writes return, with or without error; the scheduler is fair to     *)
(* each goroutine that can take a step, the calling program makes a finite  *)
(* number of calls.                                                         *)

InitLive == InitWith({ <<"p">> })

NextLive ==
    \/ \E t \in Goroutines : BeginPlain(t, MaxCalls, {infosev}, {"print"}, ConcArgs)
    \/ \E t \in Goroutines : BeginJ(t, MaxCalls, {infosev}, ReqMsgs, ConcItems)
    \/ \E t \in Goroutines : Acquire(t) \/ WriteOK(t) \/ WriteFail(t) \/ Return(t)

\* a goroutine that can lock, whose Write can return, or that can return,
\* does so
FairLive ==
    \A t \in Goroutines :
        /\ WF_vars(Acquire(t))
        /\ WF_vars(WriteOK(t) \/ WriteFail(t))
        /\ WF_vars(Return(t))

SpecLive == InitLive /\ [][NextLive]_vars /\ FairLive

---------------------------------------------------------------------------
(* SpecHTML: one goroutine makes one call whose message text, payload keys  *)
(* and payload strings hold the characters &, < and >.                      *)

HTMLText == <<"<", "b", ">", "&", "<", "/", "b", ">">>
HTMLArgs == { <<HTMLText>>, <<<<"m", "&", "m">>, <<"<">>>>, <<<<"%", "s", ">">>, <<"&">>>> }
HTMLMsgs == { <<>>, HTMLText, <<"&">> }
HTMLItems ==
    { GoStruct(<< <<<<"m", "&", "m">>, GoString(<<"n", "o", "t", "<", "b", ">">>)>> >>),
      GoStruct(<< <<<<"<", "k", ">">>, GoString(HTMLText)>>,
                  <<<<"n">>, GoInt(<<"1">>)>> >>),
      GoString(HTMLText),
      GoSlice(<<GoString(<<"&">>), GoString(<<">">>)>>) }

InitHTML == InitWith({ <<"p">> })

NextHTML ==
    \/ DoForRequest("la", SeqHeaders)
    \/ BeginPlain("g1", 1, Severities, {"print", "ln", "f"}, HTMLArgs)
    \/ BeginJ("g1", 1, {debugsev, errorsev}, HTMLMsgs, HTMLItems)
    \/ Acquire("g1") \/ WriteOK("g1") \/ Return("g1")

SpecHTML == InitHTML /\ [][NextHTML]_vars

---------------------------------------------------------------------------
(* SpecGlog: the glog subpackage: request Loggers made from a set of        *)
(* headers, and calls of every severity and shape through them.             *)

GlogHeaders ==
    { <<>>, <<"a">>, <<"/", "1">>, <<"a", "/">>, <<"a", "/", "1">>,
      <<"a", "/", ";", "o", "=", "1">>,
      <<"a", "b", "/", "1", "2", "3", ";", "o", "=", "1">>,
      <<"a", ";", "b", "/", "4", ";", "o", "=", "0">> }
GlogArgs == { <<<<"a">>>> }

InitGlog ==
    /\ ProjectID \in { <<>>, <<"p">> }
    /\ logger = [l \in LoggerIds |-> IF l = std THEN GlogZeroLogger ELSE GlogNotMade]
    /\ mu = [l \in LoggerIds |-> NoOne]
    /\ stream = [w \in Writers |-> <<>>]
    /\ owner = [w \in Writers |-> <<>>]
    /\ nwrites = <<>>
    /\ pc = [t \in Goroutines |-> "idle"]
    /\ call = [t \in Goroutines |-> NoCall]
    /\ origin = [l \in LoggerIds |-> NoOrigin]
    /\ ncalls = 0
    /\ nfails = 0

NextGlog ==
    \/ DoGlogForRequest("la", GlogHeaders)
    \/ GlogCall("g1", MaxCalls, GlogSeverities, {"print", "ln", "f"}, GlogArgs)

SpecGlog == InitGlog /\ [][NextGlog]_vars

---------------------------------------------------------------------------
(* SpecRaw: one call of logs or of logj from inside the package, with a     *)
(* severity that is one of the eight or none of them, a message that is     *)
(* empty or not, through a Logger with a trace or without, and a payload    *)
(* of every form.                                                           *)

UnknownSevs == {50, 800}
RawSevs == {debugsev, errorsev} \cup UnknownSevs
RawHeaders == { <<"1", "/", "2">> }
RawArgs == { <<<<>>>>, <<<<"a">>>> }
RawMsgs == { <<>>, <<"a">> }
RawItems ==
    { GoStruct(<<>>),
      GoStruct(<< <<<<"T">>, GoString(<<"t">>)>> >>),
      GoStruct(<< <<<<"T">>, GoString(<<",">>)>>, <<<<"n">>, GoSlice(<<GoInt(<<"1">>), GoNil>>)>> >>),
      GoNil, GoInt(<<"7">>),
      GoSlice(<<GoInt(<<"1">>), GoString(<<"}">>)>>),
      GoFailing }

InitRaw == InitWith({ <<"p">> })

NextRaw ==
    \/ DoForRequest("la", RawHeaders)
    \/ BeginPlain("g1", 1, RawSevs, {"print", "ln"}, RawArgs)
    \/ BeginJ("g1", 1, RawSevs, RawMsgs, RawItems)
    \/ Acquire("g1") \/ WriteOK("g1") \/ Return("g1")

SpecRaw == InitRaw /\ [][NextRaw]_vars

---------------------------------------------------------------------------
(* SpecRecover: one goroutine logs through the default Logger, some of its  *)
(* structured calls with a payload whose MarshalJSON panics; it recovers    *)
(* the panic and goes on logging.                                           *)

RecoverSevs == {infosev, errorsev}
RecoverArgs == { <<<<"a">>>> }
RecoverMsgs == { <<>>, <<"a">> }
RecoverItems ==
    { GoPanicking(<<"p">>),
      GoStruct(<< <<<<"T">>, GoString(<<"t">>)>> >>),
      GoNil }

InitRecover == InitWith({ <<>> })

NextRecover ==
    \/ BeginPlain("g1", MaxCalls, RecoverSevs, {"print"}, RecoverArgs)
    \/ BeginJ("g1", MaxCalls, RecoverSevs, RecoverMsgs, RecoverItems)
    \/ Acquire("g1") \/ WriteOK("g1") \/ Return("g1")

SpecRecover == InitRecover /\ [][NextRecover]_vars

---------------------------------------------------------------------------
(* Reading the streams back: what the properties below are stated with.     *)

NewlinesIn(bytes) == Cardinality({i \in 1..Len(bytes) : bytes[i] = "\n"})

\* the start positions of the lines of a stream, the line in progress included
LineStarts(bytes) ==
    {i \in 1..Len(bytes) : i = 1 \/ bytes[i - 1] = "\n"}

\* The stream w holds whole entries, one after the other, and at most one
\* entry in progress at its end: every line is the bytes of one call only,
\* no call has bytes on two lines, every line starts with '{', every newline
\* follows a '}', and an unfinished last line belongs to a call that is still
\* writing under its Logger's lock.
EntriesWhole(w) ==
    LET bytes == stream[w]
        ids == owner[w]
        n == Len(bytes)
    IN  /\ \A i \in 1..(n - 1) : bytes[i] # "\n" => ids[i + 1] = ids[i]
        /\ Cardinality({ids[i] : i \in LineStarts(bytes)})
              = Cardinality(LineStarts(bytes))
        /\ \A i \in LineStarts(bytes) : bytes[i] = "{"
        /\ \A i \in 1..n : bytes[i] = "\n" => i > 1 /\ bytes[i - 1] = "}"
        /\ (n > 0 /\ bytes[n] # "\n") =>
              \E t \in Goroutines :
                  /\ pc[t] = "write"
                  /\ call[t].id = ids[n]
                  /\ call[t].w = w
                  /\ mu[call[t].l] = t

\* no call is under way
Quiescent == \A t \in Goroutines : pc[t] \in {"idle", "panicked"}

RECURSIVE SumLines(_)
SumLines(ws) ==
    IF ws = {} THEN 0
    ELSE LET w == CHOOSE x \in ws : TRUE
         IN  NewlinesIn(stream[w]) + SumLines(ws \ {w})

---------------------------------------------------------------------------
(* C1: goroutines that log concurrently through one Logger, whatever the    *)
(* mix of plain and structured calls, never interleave the bytes of two     *)
(* entries on its destination: each stream is a sequence of whole entries   *)
(* plus at most one in progress, and once every call has returned there are *)
(* as many lines as calls.  In Spec each stream belongs to one Logger: the  *)
(* standard streams to the default Logger, buf (both streams) to New(buf).  *)
C1_OneLoggerNeverInterleaves ==
    /\ \A w \in Writers : EntriesWhole(w)
    /\ Quiescent => SumLines(Writers) = ncalls

\* C1's case: both goroutines are inside a call on the Logger made by New,
\* one writing a structured entry under the lock, the other waiting for it
C1_Witness ==
    /\ call["g1"].l = "la" /\ call["g2"].l = "la"
    /\ pc["g1"] = "write" /\ call["g1"].shape = "j" /\ nwrites[call["g1"].id] = 3
    /\ pc["g2"] = "lock"
    /\ call["g1"].s = infosev /\ call["g2"].s = errorsev

(* C2: the claim as stated: also when the default Logger and a Logger made  *)
(* by ForRequest log concurrently to the shared standard streams, no        *)
(* entry's bytes are interleaved with another entry's.                      *)
C2_LoggersNeverInterleave ==
    \A w \in {Stdout, Stderr} : EntriesWhole(w)

---------------------------------------------------------------------------
(* Reading one entry back as JSON text.                                     *)

RECURSIVE BytesOf(_, _, _)
\* the bytes of a stream that call id wrote, in order
BytesOf(bytes, ids, id) ==
    IF bytes = <<>> THEN <<>>
    ELSE IF Len(bytes) = 1 THEN (IF ids[1] = id THEN bytes ELSE <<>>)
    ELSE LET m == Len(bytes) \div 2
         IN  BytesOf(SubSeq(bytes, 1, m), SubSeq(ids, 1, m), id)
             \o BytesOf(SubSeq(bytes, m + 1, Len(bytes)),
                        SubSeq(ids, m + 1, Len(ids)), id)

\* what the current (or last) call of goroutine t has put on its stream
Out(t) == BytesOf(stream[call[t].w], owner[call[t].w], call[t].id)

\* the call of t has returned and none of its Writes failed
Completed(t) == call[t].ret /\ ~call[t].failed

\* Scanning JSON text: depth is the nesting so far, mode says whether the
\* scan is outside a string ("out"), inside one ("str") or after a backslash
\* inside one ("esc"), found holds the positions seen so far of the bytes
\* seps outside any string at nesting depth 1.
ScanStep(text, i, st, seps) ==
    LET c == text[i]
    IN  CASE st.mode = "esc" -> [st EXCEPT !.mode = "str"]
          [] st.mode = "str" ->
               [st EXCEPT !.mode = IF c = "\\" THEN "esc"
                                   ELSE IF c = "\"" THEN "out" ELSE "str"]
          [] OTHER ->
               [depth |-> IF c \in {"{", "["} THEN st.depth + 1
                          ELSE IF c \in {"}", "]"} THEN st.depth - 1 ELSE st.depth,
                mode |-> IF c = "\"" THEN "str" ELSE "out",
                found |-> IF c \in seps /\ st.depth = 1
                          THEN Append(st.found, i) ELSE st.found]

RECURSIVE ScanRange(_, _, _, _, _)
ScanRange(text, lo, hi, st, seps) ==
    IF lo > hi THEN st
    ELSE IF lo = hi THEN ScanStep(text, lo, st, seps)
    ELSE LET m == (lo + hi) \div 2
             left == ScanRange(text, lo, m, st, seps)
         IN  \* the left half is scanned first, then the right half from its state
             IF left.depth = st.depth - (hi - lo) - 2 THEN left
             ELSE ScanRange(text, m + 1, hi, left, seps)

\* the positions of text where one of seps stands outside any string at
\* nesting depth 1, the nesting before the first byte being depth
ScanTop(text, depth, seps) ==
    ScanRange(text, 1, Len(text), [depth |-> depth, mode |-> "out", found |-> <<>>],
              seps).found

\* one member `key:value` of an object, split at its first colon outside strings
Member(text) ==
    LET colons == ScanTop(text, 1, {":"})
    IN  IF colons = <<>> THEN [key |-> <<>>, raw |-> text]
        ELSE [key |-> SubSeq(text, 1, colons[1] - 1),
              raw |-> SubSeq(text, colons[1] + 1, Len(text))]

\* The top-level members of the object text `{...}`, in order, each as its key
\* (a JSON string, quotes included) and the raw text of its value.  The empty
\* object has none; text that is no object has the single member NotAnObject.
NotAnObject == [key |-> <<"?">>, raw |-> <<>>]
Members(text) ==
    LET cuts == ScanTop(text, 0, {",", "}"})
        k == Len(cuts)
    IN  IF Len(text) < 2 \/ text[1] # "{" \/ k = 0 \/ cuts[k] # Len(text)
           \/ text[Len(text)] # "}"
        THEN <<NotAnObject>>
        ELSE IF text = <<"{", "}">> THEN <<>>
        ELSE [j \in 1..k |->
                Member(SubSeq(text, (IF j = 1 THEN 1 ELSE cuts[j - 1]) + 1, cuts[j] - 1))]

\* a JSON string: quoted, no raw quote, newline or lone backslash inside
IsJSONString(text) ==
    /\ Len(text) >= 2
    /\ text[1] = "\"" /\ text[Len(text)] = "\""
    /\ \A i \in 1..Len(text) : text[i] # "\n"
    /\ LET inner == SubSeq(text, 2, Len(text) - 1)
       IN  \A i \in 1..Len(inner) :
              inner[i] = "\"" => i > 1 /\ inner[i - 1] = "\\"

\* line is one JSON object and exactly one newline, which ends it: every
\* member has a string key and a value, so no comma is doubled, leads or trails
IsEntryLine(line) ==
    /\ Len(line) >= 3
    /\ line[Len(line)] = "\n"
    /\ NewlinesIn(line) = 1
    /\ LET ms == Members(SubSeq(line, 1, Len(line) - 1))
       IN  \A j \in 1..Len(ms) :
              /\ IsJSONString(ms[j].key)
              /\ ms[j].raw # <<>>

\* the members of the entry on line
EntryMembers(line) == Members(SubSeq(line, 1, Len(line) - 1))
Keys(ms) == [j \in 1..Len(ms) |-> ms[j].key]
Raws(ms) == [j \in 1..Len(ms) |-> ms[j].raw]
Occurrences(seq, x) == Cardinality({j \in 1..Len(seq) : seq[j] = x})

\* the reserved keys, as they stand in an entry
QMessage == <<"\"","m","e","s","s","a","g","e","\"">>
QSeverity == <<"\"","s","e","v","e","r","i","t","y","\"">>
QTrace == <<"\"","l","o","g","g","i","n","g",".","g","o","o","g","l","e","a","p","i","s",".","c","o","m","/","t","r","a","c","e","\"">>
QValue == <<"\"","v","a","l","u","e","\"">>
QLogLibMsg == <<"\"","l","o","g","L","i","b","M","s","g","\"">>

\* the documented name of each severity, quoted
SeverityName(s) ==
    CASE s = 0 -> <<"\"","D","E","B","U","G","\"">>
      [] s = 100 -> <<"\"","I","N","F","O","\"">>
      [] s = 200 -> <<"\"","N","O","T","I","C","E","\"">>
      [] s = 300 -> <<"\"","W","A","R","N","I","N","G","\"">>
      [] s = 400 -> <<"\"","E","R","R","O","R","\"">>
      [] s = 500 -> <<"\"","C","R","I","T","I","C","A","L","\"">>
      [] s = 600 -> <<"\"","A","L","E","R","T","\"">>
      [] s = 700 -> <<"\"","E","M","E","R","G","E","N","C","Y","\"">>


\* the reserved keys a call of goroutine t is to emit, in their order
ReservedKeys(t) ==
    (IF call[t].msg # <<>> THEN <<QMessage>> ELSE <<>>)
    \o <<QSeverity>>
    \o (IF logger[call[t].l].trace # <<>> THEN <<QTrace>> ELSE <<>>)

\* the call of t is a completed structured call whose item is of one of kinds
CompletedJ(t, kinds) ==
    Completed(t) /\ call[t].shape = "j" /\ call[t].item.kind \in kinds

---------------------------------------------------------------------------
(* C3: the claim as stated: for each of the 8 severities and each call      *)
(* shape (plain, ln, f, j) the entry written has a severity field holding   *)
(* the severity's uppercase name.                                           *)
C3_SeverityAlwaysNamed ==
    \A t \in Goroutines :
        Completed(t) =>
            LET ms == EntryMembers(Out(t))
            IN  \E j \in 1..Len(ms) :
                    ms[j].key = QSeverity /\ ms[j].raw = SeverityName(call[t].s)

(* C4: the stream of an entry is the error stream iff its severity is one   *)
(* of ERROR, CRITICAL, ALERT, EMERGENCY; the Logger's override of that      *)
(* stream is used if it has one, else os.Stderr / os.Stdout; a Logger made  *)
(* by New(w) writes to w whatever the severity.  All bytes of the call go   *)
(* to that stream and none to another.                                      *)
C4_WriterBySeverity ==
    \A t \in Goroutines :
        (call[t].id # 0 /\ pc[t] # "panicked") =>
            LET l == logger[call[t].l]
                chosen == IF call[t].s \in {400, 500, 600, 700}
                          THEN (IF l.err # NoWriter THEN l.err ELSE Stderr)
                          ELSE (IF l.out # NoWriter THEN l.out ELSE Stdout)
            IN  /\ call[t].w = chosen
                /\ \A w \in Writers \ {chosen} :
                      \A i \in 1..Len(owner[w]) : owner[w][i] # call[t].id
                /\ origin[call[t].l].by = "New" => chosen = origin[call[t].l].w
                /\ origin[call[t].l].by # "New" => chosen \in {Stdout, Stderr}

\* C4's case: an ERROR entry has been written through the default Logger
C4_Witness ==
    /\ Completed("g1") /\ call["g1"].s = 400 /\ call["g1"].l = std
    /\ stream[Stderr] # <<>> /\ stream[Stdout] = <<>>

C5_WitnessEmpty ==
    /\ CompletedJ("g1", {"struct"})
    /\ call["g1"].item.fields = <<>>

\* how often the library itself is to write reserved key k in the call of t
Emitted(t, k) == Occurrences(ReservedKeys(t), k)

(* C6, as stated: for any object payload, also one that has a top-level key *)
(* named message, severity or logging.googleapis.com/trace, no reserved key *)
(* is among the entry's top-level keys twice, and each one the call emits   *)
(* is there exactly once.                                                   *)
C6_ReservedKeysOnce ==
    \A t \in Goroutines :
        CompletedJ(t, {"struct"}) =>
            \A k \in {QMessage, QSeverity, QTrace} :
                /\ Occurrences(Keys(EntryMembers(Out(t))), k) <= 1
                /\ Emitted(t, k) = 1 => Occurrences(Keys(EntryMembers(Out(t))), k) = 1

(* C6, amended: the library writes each reserved key it emits exactly once  *)
(* and keeps the payload's own keys: a reserved key is among the entry's    *)
(* top-level keys once for the library plus once for each top-level member  *)
(* of that name in the payload (no de-duplication).                         *)
C6_ReservedKeysNotDeduplicated ==
    \A t \in Goroutines :
        CompletedJ(t, {"struct"}) =>
            \A k \in {QMessage, QSeverity, QTrace} :
                Occurrences(Keys(EntryMembers(Out(t))), k)
                   = Emitted(t, k)
                     + Occurrences(Keys(Members(EncodeValue(call[t].item, FALSE))), k)

\* C6's case: the payload has its own message member and msg is not empty
C6_Witness ==
    /\ CompletedJ("g1", {"struct"})
    /\ call["g1"].msg # <<>>
    /\ Occurrences(Keys(EntryMembers(Out("g1"))), QMessage) = 2

(* C7: a structured call whose payload does not encode to an object (nil,   *)
(* string, number, array) writes one object: the reserved fields, then a    *)
(* value member holding the payload's encoding unchanged, then '}' and a    *)
(* newline.                                                                 *)
C7_NonObjectPayloadWrapped ==
    \A t \in Goroutines :
        CompletedJ(t, {"nil", "string", "int", "slice"}) =>
            LET ms == EntryMembers(Out(t))
                line == Out(t)
            IN  /\ IsEntryLine(line)
                /\ Keys(ms) = ReservedKeys(t) \o <<QValue>>
                /\ ms[Len(ms)].raw = EncodeValue(call[t].item, FALSE)
                /\ SubSeq(line, Len(line) - 1, Len(line)) = <<"}", "\n">>

\* C7's case: an array payload has been wrapped
C7_Witness ==
    /\ CompletedJ("g1", {"slice"})
    /\ call["g1"].msg # <<>>

CannotMarshalText == <<"\"","c","a","n","n","o","t"," ","m","a","r","s","h","a","l"," ","t","h","e"," ","a","r","g","u","m","e","n","t"," ","a","s"," ","j","s","o","n","P","a","y","l","o","a","d","\"">>

C9_PanicPropagates ==
    \A t \in Goroutines :
        (call[t].shape = "j" /\ call[t].item.kind = "panicking") =>
            /\ pc[t] = "panicked"
            /\ call[t].pval = call[t].item.str
            /\ ~call[t].ret
            /\ nwrites[call[t].id] = 0
            /\ \A l \in LoggerIds : mu[l] # t

\* C9's case: a structured call with a panicking payload has been made
C9_Witness ==
    /\ pc["g1"] = "panicked"
    /\ call["g1"].item.kind = "panicking"
    /\ call["g1"].pval = <<"p">>


---------------------------------------------------------------------------
\* one byte of the inside of a JSON string read: esc says that the byte
\* before was an unescaped backslash, text is what was decoded so far
DecodeStep(c, st) ==
    IF st.esc
    THEN [esc |-> FALSE,
          text |-> Append(st.text, CASE c = "n" -> "\n" [] c = "t" -> "\t" [] OTHER -> c)]
    ELSE IF c = "\\" THEN [st EXCEPT !.esc = TRUE]
    ELSE [st EXCEPT !.text = Append(st.text, c)]

RECURSIVE DecodeRange(_, _, _, _)
DecodeRange(text, lo, hi, st) ==
    IF lo > hi THEN st
    ELSE IF lo = hi THEN DecodeStep(text[lo], st)
    ELSE LET m == (lo + hi) \div 2
             left == DecodeRange(text, lo, m, st)
         IN  \* the left half is decoded first, then the right half from its state
             IF Len(left.text) < Len(st.text) THEN left
             ELSE DecodeRange(text, m + 1, hi, left)

\* the text a JSON string stands for
JSONDecode(text) ==
    DecodeRange(text, 2, Len(text) - 1, [esc |-> FALSE, text |-> <<>>]).text

HexOrX == {"0","1","2","3","4","5","6","7","8","9","a","b","c","d","e","f",
           "A","B","C","D","E","F","x","X"}

\* h is TRACEID/rest with TRACEID = the first k - 1 bytes: 1 to 256 bytes, all
\* hex digits or x/X, not all '0', and rest without ";o=0"
TracedAt(h, k) ==
    /\ k \in 2..257
    /\ k <= Len(h)
    /\ h[k] = "/"
    /\ \A i \in 1..(k - 1) : h[i] \in HexOrX
    /\ \E i \in 1..(k - 1) : h[i] # "0"
    /\ ~\E i \in (k + 1)..(Len(h) - 3) :
           h[i] = ";" /\ h[i + 1] = "o" /\ h[i + 2] = "=" /\ h[i + 3] = "0"

(* C10: ForRequest under a non-empty ProjectID, given the header            *)
(* TRACEID/rest with TRACEID of 1 to 256 hex digits or x/X, not all '0',    *)
(* and rest without ";o=0", makes a Logger whose trace is the JSON string   *)
(* of projects/<ProjectID>/traces/<TRACEID>; every entry written through    *)
(* that Logger has that very text as its trace member, once.                *)
C10_TraceFromHeader ==
    \A l \in LoggerIds : \A k \in 2..(Len(origin[l].h)) :
        (origin[l].by = "ForRequest" /\ origin[l].project # <<>>
           /\ TracedAt(origin[l].h, k)) =>
            /\ IsJSONString(logger[l].trace)
            /\ JSONDecode(logger[l].trace)
                  = <<"p","r","o","j","e","c","t","s","/">> \o origin[l].project
                    \o <<"/","t","r","a","c","e","s","/">>
                    \o SubSeq(origin[l].h, 1, k - 1)
            /\ \A t \in Goroutines :
                  (Completed(t) /\ call[t].l = l) =>
                      LET ms == EntryMembers(Out(t))
                      IN  /\ IsEntryLine(Out(t))
                          /\ Occurrences(Keys(ms), QTrace) = 1
                          /\ \E j \in 1..Len(ms) :
                                ms[j].key = QTrace /\ ms[j].raw = logger[l].trace

\* C10's case: a structured entry written through a Logger made from a
\* header with a 256-byte trace id
C10_Witness ==
    /\ origin["la"].by = "ForRequest"
    /\ TracedAt(origin["la"].h, 257)
    /\ origin["la"].project = <<"q", "\"">>
    /\ Completed("g1") /\ call["g1"].l = "la" /\ call["g1"].shape = "j"

---------------------------------------------------------------------------
\* the call of t, made through Logger l, has written one entry without a
\* trace member
WithoutTrace(t, l) ==
    (Completed(t) /\ call[t].l = l) =>
        /\ IsEntryLine(Out(t))
        /\ Occurrences(Keys(EntryMembers(Out(t))), QTrace) = 0

(* C11: under an empty ProjectID ForRequest makes, whatever the header, a   *)
(* Logger with an empty trace, and no entry written through that Logger     *)
(* has the trace key.                                                       *)
C11_NoProjectNoTrace ==
    \A l \in LoggerIds :
        (origin[l].by = "ForRequest" /\ origin[l].project = <<>>) =>
            /\ logger[l].made
            /\ logger[l].trace = <<>>
            /\ \A t \in Goroutines : WithoutTrace(t, l)

\* C11's case: a header that would give a trace, under the empty ProjectID,
\* and a structured entry written through the Logger
C11_Witness ==
    /\ origin["la"].by = "ForRequest"
    /\ origin["la"].project = <<>>
    /\ TracedAt(origin["la"].h, 33)
    /\ Completed("g1") /\ call["g1"].l = "la" /\ call["g1"].shape = "j"

\* the position of the first '/' of h, 0 if it has none
FirstSlash(h) ==
    IF \E i \in 1..Len(h) : h[i] = "/"
    THEN CHOOSE i \in 1..Len(h) : h[i] = "/" /\ \A j \in 1..(i - 1) : h[j] # "/"
    ELSE 0

\* h is one of the headers C12 lists
Untraced(h) ==
    LET k == FirstSlash(h)
    IN  \/ h = <<>>
        \/ k = 0
        \/ k = 1
        \/ \E i \in (k + 1)..(Len(h) - 3) :
              h[i] = ";" /\ h[i + 1] = "o" /\ h[i + 2] = "=" /\ h[i + 3] = "0"
        \/ \E i \in 1..(k - 1) : h[i] \notin HexOrX
        \/ k - 1 > 256
        \/ \A i \in 1..(k - 1) : h[i] = "0"

(* C12: under a non-empty ProjectID ForRequest makes a Logger with an empty *)
(* trace when the header is absent or empty, has no '/', has nothing before *)
(* its first '/', has ";o=0" after the first '/', has a trace id with a     *)
(* byte outside 0-9a-fA-FxX, longer than 256 bytes, or of '0' only; the     *)
(* Logger is usable and its entries have no trace field.                    *)
C12_BadHeaderNoTrace ==
    \A l \in LoggerIds :
        (origin[l].by = "ForRequest" /\ origin[l].project # <<>>
           /\ Untraced(origin[l].h)) =>
            /\ logger[l].made
            /\ logger[l].trace = <<>>
            /\ \A t \in Goroutines : WithoutTrace(t, l)

\* C12's case: a trace id of 32 zeros under a ProjectID, and an entry
\* written through the Logger
C12_Witness ==
    /\ origin["la"].by = "ForRequest"
    /\ origin["la"].project # <<>>
    /\ origin["la"].h = Repeat("0", 32) \o <<"/", "1">>
    /\ Completed("g1") /\ call["g1"].l = "la"

---------------------------------------------------------------------------
\* the call of t is over by the exit of the process or by a panic
Ended(t) == pc[t] \in {"exited", "panicked"}

\* What C13 asks of a Fatal* or Panic* call of t: it never returns to its
\* caller; when the process has exited or the panic is under way, the
\* Logger's lock is free and no Write is left to make, the entry (if no Write
\* failed) stands whole on the Logger's error stream with severity CRITICAL,
\* and a Fatal* call has exited with status 1, a Panic* call has panicked.
WrittenBeforeEnd(t) ==
    /\ pc[t] # "idle"
    /\ ~call[t].ret
    /\ Ended(t) =>
          LET l == logger[call[t].l]
              ms == EntryMembers(Out(t))
          IN  /\ \A k \in LoggerIds : mu[k] # t
              /\ call[t].frags = <<>>
              /\ call[t].fam = FamFatal => pc[t] = "exited" /\ call[t].exit = 1
              /\ call[t].fam = FamPanic => pc[t] = "panicked"
              /\ ~call[t].failed =>
                    /\ call[t].w = (IF l.err # NoWriter THEN l.err ELSE Stderr)
                    /\ IsEntryLine(Out(t))
                    /\ \E j \in 1..Len(ms) :
                          ms[j].key = QSeverity /\ ms[j].raw = SeverityName(500)

(* C13, as stated: for every call of the Fatal and Panic families the       *)
(* CRITICAL entry is written to the error stream and the lock released      *)
(* before the process exits with status 1, respectively before the panic    *)
(* can be seen by a recovering caller, and the exit or panic happens on     *)
(* every path.                                                              *)
C13_WrittenBeforeExitOrPanic ==
    \A t \in Goroutines :
        call[t].fam \in {FamFatal, FamPanic} => WrittenBeforeEnd(t)

(* C13, amended: the same for every call of the two families whose          *)
(* payload's serializer does not panic (a Write may fail, the serializer    *)
(* may return an error); when the serializer of the payload of Fatalj or    *)
(* Panicj panics, nothing is written, no lock is taken, the process does    *)
(* not exit and the serializer's panic reaches the caller.                  *)
C13_WrittenBeforeEndUnlessSerializerPanics ==
    \A t \in Goroutines :
        call[t].fam \in {FamFatal, FamPanic} =>
            IF call[t].shape = "j" /\ call[t].item.kind = "panicking"
            THEN /\ pc[t] = "panicked"
                 /\ call[t].pval = call[t].item.str
                 /\ call[t].thrown = NotThrown
                 /\ call[t].exit = NoExit
                 /\ nwrites[call[t].id] = 0
                 /\ \A k \in LoggerIds : mu[k] # t
            ELSE WrittenBeforeEnd(t)

\* C13's case: Fatalj with a payload that does not encode has written its
\* entry through a Logger made by New and the process has exited
C13_Witness ==
    /\ pc["g1"] = "exited"
    /\ call["g1"].shape = "j" /\ call["g1"].item.kind = "failing"
    /\ origin[call["g1"].l].by = "New"
    /\ ~call["g1"].failed
    /\ stream[Buf] # <<>>

(* C14: the claim as stated: for Panic, Panicln, Panicf and Panicj the      *)
(* value the panic carries is the formatted message text written as the     *)
(* entry's message.                                                         *)
C14_PanicCarriesMessage ==
    \A t \in Goroutines :
        (call[t].fam = FamPanic /\ pc[t] = "panicked"
           /\ call[t].thrown # NotThrown) =>
            call[t].thrown = GoString(call[t].msg)

---------------------------------------------------------------------------
\* the call of t is a completed plain call (log, logln, logf)
CompletedPlain(t) == Completed(t) /\ call[t].shape \in {"print", "ln", "f"}

(* C15, as stated: a plain call writes its keys in the order message,       *)
(* severity, trace and leaves out each key whose value is empty or unset:   *)
(* message when the text is empty, severity when it is the zero value,      *)
(* trace when the Logger has none.                                          *)
C15_PlainOmitsEmptyKeys ==
    \A t \in Goroutines :
        CompletedPlain(t) =>
            Keys(EntryMembers(Out(t)))
               = (IF call[t].msg # <<>> THEN <<QMessage>> ELSE <<>>)
                 \o (IF call[t].s # 0 THEN <<QSeverity>> ELSE <<>>)
                 \o (IF logger[call[t].l].trace # <<>> THEN <<QTrace>> ELSE <<>>)

(* C15, amended: a plain call of a severity INFO to EMERGENCY writes its    *)
(* keys in the order message, severity, trace; the message key is always    *)
(* there, with the empty string when the text is empty; the trace key is    *)
(* left out when the Logger has no trace, and is the Logger's trace         *)
(* otherwise.                                                               *)
C15_PlainKeysMessageAlways ==
    \A t \in Goroutines :
        (CompletedPlain(t) /\ call[t].s # 0) =>
            LET ms == EntryMembers(Out(t))
                tr == logger[call[t].l].trace
            IN  /\ IsEntryLine(Out(t))
                /\ Keys(ms) = <<QMessage, QSeverity>>
                              \o (IF tr # <<>> THEN <<QTrace>> ELSE <<>>)
                /\ ms[1].raw = JSONString(call[t].msg, FALSE)
                /\ ms[2].raw = SeverityName(call[t].s)
                /\ tr # <<>> => ms[3].raw = tr

\* C15's case: a plain call with the empty text through a Logger with a trace
C15_Witness ==
    /\ CompletedPlain("g1")
    /\ call["g1"].msg = <<>>
    /\ call["g1"].s = 300
    /\ logger[call["g1"].l].trace # <<>>

(* C16: a plain call always writes the message key, also for the empty      *)
(* text: Print("") through a Logger without trace writes exactly            *)
(* {"message":"","severity":"INFO"} and a newline.                          *)
C16_PlainMessageAlways ==
    \A t \in Goroutines :
        CompletedPlain(t) =>
            /\ Occurrences(Keys(EntryMembers(Out(t))), QMessage) = 1
            /\ Keys(EntryMembers(Out(t)))[1] = QMessage
            /\ (call[t].shape = "print" /\ call[t].v = << <<>> >> /\ call[t].s = 100
                  /\ logger[call[t].l].trace = <<>>) =>
                  Out(t) = <<"{">> \o QMessage \o <<":", "\"", "\"", ",">>
                           \o QSeverity \o <<":", "\"", "I", "N", "F", "O", "\"", "}", "\n">>

\* C16's case: Print("") through the default Logger
C16_Witness ==
    /\ CompletedPlain("g1")
    /\ call["g1"].shape = "print" /\ call["g1"].v = << <<>> >>
    /\ call["g1"].s = 100 /\ call["g1"].l = std

---------------------------------------------------------------------------
(* C17: every logging call that completes its Writes has appended exactly   *)
(* one JSON object and exactly one newline, which ends it, to its stream,   *)
(* whatever the call shape and the payload; a newline of the message text   *)
(* (such as the one the ln variants add) is escaped inside the message      *)
(* string.                                                                  *)
C17_OneObjectOneNewline ==
    \A t \in Goroutines :
        Completed(t) =>
            LET line == Out(t)
            IN  /\ IsEntryLine(line)
                /\ line[1] = "{"
                /\ SubSeq(line, Len(line) - 1, Len(line)) = <<"}", "\n">>
                /\ \A i \in 1..(Len(line) - 1) : line[i] # "\n"
                /\ stream[call[t].w] = line
                /\ \A w \in Writers \ {call[t].w} : stream[w] = <<>>

\* C17's case: an ln call whose text has two newlines
C17_Witness ==
    /\ Completed("g1")
    /\ call["g1"].shape = "ln"
    /\ NewlinesIn(call["g1"].msg) = 2

(* C18: the claim as stated: every message logged through a Logger made by  *)
(* New(w, ...) reaches w by exactly one Write call, for plain and for       *)
(* structured calls.                                                        *)
C18_OneWritePerMessage ==
    \A t \in Goroutines :
        (Completed(t) /\ origin[call[t].l].by = "New") =>
            nwrites[call[t].id] = 1

---------------------------------------------------------------------------
\* the Writes Info, Infoln, Infof (shape print, ln, f, operands v) or Infoj
\* (shape j, msg and item) make through Logger l
InfoWrites(l, shape, v, msg, item) ==
    IF shape = "j" THEN logj(infosev, logger[l], msg, item)
    ELSE logs(infosev, logger[l], FormatMsg(shape, v))

---------------------------------------------------------------------------
\* a Write of the call of t has failed: the call neither panics nor ends the
\* process, and once it has returned the Logger's lock is free
FailureIgnored(t) ==
    call[t].failed =>
        /\ pc[t] \in {"write", "idle", "lock"}
        /\ call[t].thrown = NotThrown /\ call[t].exit = NoExit
        /\ call[t].ret => mu[call[t].l] # t

\* the Logger of a call that failed is usable: a later call through it that
\* completes its Writes has written a whole entry
UsableAfterFailure(t, u) ==
    (call[t].failed /\ call[t].ret /\ call[u].id > call[t].id
       /\ call[u].l = call[t].l /\ Completed(u)) =>
        IsEntryLine(Out(u))

\* a call whose Write failed makes no further Write: the stream takes
\* nothing more from it
NotRetried(t) ==
    (call[t].failed /\ call'[t].id = call[t].id) =>
        /\ nwrites'[call[t].id] = nwrites[call[t].id]
        /\ call'[t].failed

(* C20: a failure of the stream's Write in a logging call is ignored: the   *)
(* call returns to its caller without panic or exit, it makes no further    *)
(* Write (the failed one is not retried), and the Logger stays usable for   *)
(* later calls.                                                             *)
C20_WriteFailureIgnored ==
    /\ [](\A t \in Goroutines : FailureIgnored(t))
    /\ [](\A t, u \in Goroutines : UsableAfterFailure(t, u))
    /\ [][\A t \in Goroutines : NotRetried(t)]_vars

\* C20's case: the call of one goroutine failed in the middle of a
\* structured entry and returned, and the other goroutine has then written
\* an entry through the same Logger
C20_Witness ==
    /\ call["g1"].failed /\ call["g1"].ret
    /\ call["g1"].shape = "j" /\ nwrites[call["g1"].id] = 3
    /\ call["g2"].id > call["g1"].id
    /\ call["g2"].l = call["g1"].l
    /\ Completed("g2")

---------------------------------------------------------------------------
\* the text of the trace of project and the trace id of header h, h being
\* TRACEID/rest
TraceText(project, h) ==
    <<"p","r","o","j","e","c","t","s","/">> \o project
    \o <<"/","t","r","a","c","e","s","/">> \o SubSeq(h, 1, FirstSlash(h) - 1)

\* the trace a request Logger is to have, from the ProjectID project at the
\* time of its construction and its header h: none, or a JSON string
TraceIsOf(trace, project, h) ==
    IF project # <<>> /\ TracedAt(h, FirstSlash(h))
    THEN IsJSONString(trace) /\ JSONDecode(trace) = TraceText(project, h)
    ELSE trace = <<>>

\* no step changes a Logger that exists
LoggersKept ==
    \A l \in LoggerIds : logger[l].made => logger'[l] = logger[l]

\* a Logger that ForRequest makes in this step has the trace of the
\* ProjectID of this moment
MadeWithCurrentProject ==
    \A l \in LoggerIds :
        (~logger[l].made /\ logger'[l].made /\ origin'[l].by = "ForRequest") =>
            TraceIsOf(logger'[l].trace, ProjectID, origin'[l].h)

\* the entries written through a request Logger have the trace of the
\* ProjectID of its construction, whatever ProjectID is now
EntriesKeepTrace ==
    \A l \in LoggerIds : \A t \in Goroutines :
        (origin[l].by = "ForRequest" /\ Completed(t) /\ call[t].l = l) =>
            LET ms == EntryMembers(Out(t))
                withTrace == origin[l].project # <<>>
                             /\ TracedAt(origin[l].h, FirstSlash(origin[l].h))
            IN  /\ IsEntryLine(Out(t))
                /\ Occurrences(Keys(ms), QTrace) = (IF withTrace THEN 1 ELSE 0)
                /\ \A j \in 1..Len(ms) :
                      ms[j].key = QTrace =>
                          JSONDecode(ms[j].raw) = TraceText(origin[l].project, origin[l].h)

(* C21: the trace of a Logger is fixed when ForRequest makes it: a change   *)
(* of ProjectID afterwards changes neither the trace of the Loggers that    *)
(* exist nor the entries they write later, and a Logger made after the      *)
(* change has the trace of the new value; no step, a logging call           *)
(* included, changes the trace or the streams of a Logger.                  *)
C21_TraceFixedAtConstruction ==
    /\ [][LoggersKept /\ MadeWithCurrentProject]_vars
    /\ []EntriesKeepTrace

\* C21's case: two request Loggers made under different ProjectIDs, a third
\* value now, and an entry written through the first Logger
C21_Witness ==
    /\ origin["la"].by = "ForRequest" /\ origin["lb"].by = "ForRequest"
    /\ origin["la"].project = <<"p">> /\ origin["lb"].project = <<"q">>
    /\ logger["la"].trace # <<>> /\ logger["lb"].trace # <<>>
    /\ logger["la"].trace # logger["lb"].trace
    /\ ProjectID = <<>>
    /\ Completed("g1") /\ call["g1"].l = "la"

---------------------------------------------------------------------------
\* goroutine t is inside a logging call
InCall(t) == pc[t] \in {"lock", "write"}

\* goroutine t holds no lock
HoldsNone(t) == \A l \in LoggerIds : mu[l] # t

(* C22: no logging call blocks for ever: under fair scheduling, with Writes *)
(* that return, every call of every goroutine gets the Logger's lock,       *)
(* finishes and releases it, also after a failed Write; and no goroutine    *)
(* asks for a lock while it holds one.                                      *)
C22_EveryCallFinishes ==
    /\ [](\A t \in Goroutines : pc[t] = "lock" => HoldsNone(t))
    /\ \A t \in Goroutines : (pc[t] = "lock") ~> (pc[t] = "write" /\ mu[call[t].l] = t)
    /\ \A t \in Goroutines : InCall(t) ~> (pc[t] = "idle" /\ call[t].ret /\ HoldsNone(t))

\* C22's case: one goroutine waits for the lock that the other holds after a
\* failed Write
C22_Witness ==
    /\ pc["g1"] = "lock"
    /\ pc["g2"] = "write" /\ call["g2"].failed
    /\ call["g1"].l = call["g2"].l
    /\ mu[call["g2"].l] = "g2"

---------------------------------------------------------------------------
\* text between quotes as it stands, but for a newline, which is written \n
\* (for texts without quotes, backslashes and other control bytes)
QuoteLiterally(text) ==
    <<"\"">>
    \o Concat([i \in 1..Len(text) |->
                  IF text[i] = "\n" THEN <<"\\", "n">> ELSE <<text[i]>>])
    \o <<"\"">>

\* the bytes &, < and > of text, in order
HTMLBytes(text) == SelectSeq(text, LAMBDA c : c \in {"&", "<", ">"})

\* the text of a payload as it is to stand in the entry, nothing escaped
RECURSIVE LiteralValue(_)
LiteralValue(v) ==
    CASE v.kind = "string" -> QuoteLiterally(v.str)
      [] v.kind = "int" -> v.str
      [] v.kind = "slice" ->
           <<"[">>
           \o Concat([i \in 1..Len(v.fields) |->
                         (IF i > 1 THEN <<",">> ELSE <<>>) \o LiteralValue(v.fields[i])])
           \o <<"]">>
      [] v.kind = "struct" ->
           <<"{">>
           \o Concat([i \in 1..Len(v.fields) |->
                         (IF i > 1 THEN <<",">> ELSE <<>>)
                         \o QuoteLiterally(v.fields[i][1]) \o <<":">>
                         \o LiteralValue(v.fields[i][2])])
           \o <<"}">>

(* C23: string content is never HTML-escaped: the characters &, < and > of  *)
(* the message text, of payload keys and of payload strings stand in the    *)
(* entry as they are, in plain and in structured calls alike.               *)
C23_NoHTMLEscaping ==
    \A t \in Goroutines :
        Completed(t) =>
            LET ms == EntryMembers(Out(t))
                r == Len(ReservedKeys(t))
                line == Out(t)
            IN  /\ IsEntryLine(line)
                /\ \A i \in 1..(Len(line) - 1) : ~(line[i] = "\\" /\ line[i + 1] = "u")
                /\ (call[t].shape # "j" \/ call[t].msg # <<>>) =>
                      /\ ms[1].key = QMessage
                      /\ ms[1].raw = QuoteLiterally(call[t].msg)
                /\ HTMLBytes(line)
                      = HTMLBytes(call[t].msg)
                        \o (IF call[t].shape = "j"
                            THEN HTMLBytes(LiteralValue(call[t].item)) ELSE <<>>)
                /\ (call[t].shape = "j" /\ call[t].item.kind = "struct") =>
                      SubSeq(ms, r + 1, Len(ms)) = Members(LiteralValue(call[t].item))
                /\ (call[t].shape = "j" /\ call[t].item.kind # "struct") =>
                      ms[Len(ms)].raw = LiteralValue(call[t].item)

\* C23's case: a plain entry whose text has all three characters
C23_Witness ==
    /\ Completed("g1")
    /\ call["g1"].shape = "print"
    /\ call["g1"].msg = HTMLText

\* C23's other case: a structured entry with the characters in the message,
\* in a key and in a string of the payload
C23_WitnessStructured ==
    /\ Completed("g1")
    /\ call["g1"].shape = "j"
    /\ call["g1"].msg = HTMLText
    /\ Len(call["g1"].item.fields) = 2

---------------------------------------------------------------------------
\* the documented name of each named severity of the glog subpackage, quoted
GlogSeverityName(s) ==
    CASE s = 100 -> <<"\"","D","E","B","U","G","\"">>
      [] s = 200 -> <<"\"","I","N","F","O","\"">>
      [] s = 300 -> <<"\"","N","O","T","I","C","E","\"">>
      [] s = 400 -> <<"\"","W","A","R","N","I","N","G","\"">>
      [] s = 500 -> <<"\"","E","R","R","O","R","\"">>
      [] s = 600 -> <<"\"","C","R","I","T","I","C","A","L","\"">>
      [] s = 700 -> <<"\"","A","L","E","R","T","\"">>
      [] s = 800 -> <<"\"","E","M","E","R","G","E","N","C","Y","\"">>

(* C24: in the glog subpackage an entry of the default severity (Print) has *)
(* no severity field, and an entry of each of the eight named severities,   *)
(* DEBUG to EMERGENCY, has a severity field holding the severity's name.    *)
C24_GlogSeverityNamed ==
    \A t \in Goroutines :
        Completed(t) =>
            LET ms == EntryMembers(Out(t))
            IN  IF call[t].s = 0
                THEN Occurrences(Keys(ms), QSeverity) = 0
                ELSE \E j \in 1..Len(ms) :
                        ms[j].key = QSeverity /\ ms[j].raw = GlogSeverityName(call[t].s)

(* C30: in the glog subpackage, a Logger made by ForRequest under a         *)
(* non-empty ProjectID from a header TRACEID/SPANID;o=FLAG has as span id   *)
(* the text strictly between the first '/' and the ';' that follows it,     *)
(* neither separator included, and the empty span id when no ';' follows    *)
(* the '/'.                                                                 *)
C30_GlogSpanIdBetweenSeparators ==
    \A l \in LoggerIds :
        (origin[l].by = "ForRequest" /\ origin[l].project # <<>>) =>
            LET h == origin[l].h
                slashes == {i \in 2..Len(h) : h[i] = "/"}
            IN  (slashes # {} /\ h[1] # "/") =>
                    LET i == CHOOSE x \in slashes : \A y \in slashes : x <= y
                        semis == {k \in (i + 1)..Len(h) : h[k] = ";"}
                    IN  IF semis = {} THEN logger[l].spanID = <<>>
                        ELSE LET k == CHOOSE x \in semis : \A y \in semis : x <= y
                             IN  logger[l].spanID = SubSeq(h, i + 1, k - 1)

\* the same, left aside the leading '/' that the code keeps
C30_GlogSpanIdWithSlash ==
    \A l \in LoggerIds :
        (origin[l].by = "ForRequest" /\ origin[l].project # <<>>) =>
            LET h == origin[l].h
                slashes == {i \in 2..Len(h) : h[i] = "/"}
            IN  (slashes # {} /\ h[1] # "/") =>
                    LET i == CHOOSE x \in slashes : \A y \in slashes : x <= y
                        semis == {k \in (i + 1)..Len(h) : h[k] = ";"}
                    IN  IF semis = {} THEN logger[l].spanID = <<>>
                        ELSE LET k == CHOOSE x \in semis : \A y \in semis : x <= y
                             IN  logger[l].spanID = SubSeq(h, i, k - 1)

\* C24 for the severities other than EMERGENCY
C24_GlogSeverityNamedBelowEmergency ==
    \A t \in Goroutines :
        (Completed(t) /\ call[t].s # 800) =>
            LET ms == EntryMembers(Out(t))
            IN  IF call[t].s = 0
                THEN Occurrences(Keys(ms), QSeverity) = 0
                ELSE \E j \in 1..Len(ms) :
                        ms[j].key = QSeverity /\ ms[j].raw = GlogSeverityName(call[t].s)

---------------------------------------------------------------------------
\* the placeholder name of a severity that is none of the eight, quoted
QUnknown == <<"\"","U","N","K","N","O","W","N","\"">>

\* the call of t has written one whole entry that has the call's message and
\* the Logger's trace, and no severity or the placeholder
KeepsEntry(t) ==
    LET ms == EntryMembers(Out(t))
        l == logger[call[t].l]
    IN  /\ IsEntryLine(Out(t))
        /\ (call[t].shape # "j" \/ call[t].msg # <<>>) =>
               \E j \in 1..Len(ms) :
                   /\ ms[j].key = QMessage
                   /\ ms[j].raw = marshalJSON(GoString(call[t].msg)).res
        /\ Len(l.trace) # 0 =>
               \E j \in 1..Len(ms) : ms[j].key = QTrace /\ ms[j].raw = l.trace
        /\ \A j \in 1..Len(ms) : ms[j].key = QSeverity => ms[j].raw = QUnknown

(* C25: a call of logs or logj with a severity that is none of the eight    *)
(* named ones still writes its entry: a whole line with the message, with   *)
(* the trace when the Logger has one, and with the severity field left out  *)
(* or holding a placeholder.                                                *)
C25_UnknownSeverityKeepsEntry ==
    \A t \in Goroutines :
        (Completed(t) /\ call[t].s \notin Severities) => KeepsEntry(t)

\* C25 for the structured calls alone
C25_UnknownSeverityKeepsEntryStructured ==
    \A t \in Goroutines :
        (Completed(t) /\ call[t].s \notin Severities /\ call[t].shape = "j")
            => KeepsEntry(t)

---------------------------------------------------------------------------
\* the number of top-level members the entry of a structured call is to have:
\* the reserved ones that apply, and the payload's own or the one wrapping it
MembersDue(t) ==
    LET l == logger[call[t].l]
    IN  (IF call[t].msg # <<>> THEN 1 ELSE 0)
        + (IF call[t].s \in Severities THEN 1 ELSE 0)
        + (IF Len(l.trace) # 0 THEN 1 ELSE 0)
        + (IF call[t].item.kind = "struct" THEN Len(call[t].item.fields) ELSE 1)

(* C26: the entry of a structured call is well formed in its commas for     *)
(* every combination of empty or non-empty message, known or unknown        *)
(* severity, trace or none, and empty-object, object or non-object payload: *)
(* one comma between each two adjacent top-level members and no other, none *)
(* right after the opening brace and none right before the closing one.     *)
C26_CommasWellFormed ==
    \A t \in Goroutines :
        (Completed(t) /\ call[t].shape = "j") =>
            LET line == Out(t)
                text == SubSeq(line, 1, Len(line) - 1)
                due == MembersDue(t)
            IN  /\ IsEntryLine(line)
                /\ Len(EntryMembers(line)) = due
                /\ Len(ScanTop(text, 0, {","})) = (IF due = 0 THEN 0 ELSE due - 1)
                /\ text[2] # ","
                /\ text[Len(text) - 1] # ","

\* an entry of an unknown severity and an empty message, with a trace and a
\* payload of two fields, has been written
C26_Witness ==
    /\ Completed("g1")
    /\ call["g1"].shape = "j"
    /\ call["g1"].s \notin Severities
    /\ call["g1"].msg = <<>>
    /\ Len(logger[call["g1"].l].trace) # 0
    /\ call["g1"].item.kind = "struct"
    /\ Len(call["g1"].item.fields) = 2
    /\ Len(EntryMembers(Out("g1"))) = 3

\* an entry with no member at all has been written
C26_WitnessEmpty ==
    /\ Completed("g1")
    /\ call["g1"].shape = "j"
    /\ MembersDue("g1") = 0
    /\ Out("g1") = <<"{", "}", "\n">>

---------------------------------------------------------------------------
\* no stream ends in the middle of a line
NoPartialLine ==
    \A w \in Writers : stream[w] = <<>> \/ stream[w][Len(stream[w])] = "\n"

\* the call of t follows a call that made no Write; where one goroutine
\* logs, no Write fails and every severity is one of the eight, that is a
\* call whose payload panicked
AfterPanic(t) == call[t].id > 1 /\ nwrites[call[t].id - 1] = 0

(* C27: when the payload's serializer panics in a structured call, the call *)
(* has written nothing, no stream is left in the middle of a line and the   *)
(* caller holds no lock as the panic leaves the library; the next call of   *)
(* the caller through the same Logger finds the lock free and writes a      *)
(* whole entry.                                                             *)
C27_PanicLeavesLoggerUsable ==
    \A t \in Goroutines :
        /\ pc[t] = "panicked" =>
              /\ nwrites[call[t].id] = 0
              /\ \A w \in Writers : \A i \in 1..Len(owner[w]) : owner[w][i] # call[t].id
              /\ NoPartialLine
              /\ HoldsNone(t)
              /\ mu[call[t].l] = NoOne
        /\ (pc[t] = "lock" /\ AfterPanic(t)) => mu[call[t].l] = NoOne
        /\ (Completed(t) /\ AfterPanic(t)) =>
              /\ IsEntryLine(Out(t))
              /\ \A w \in Writers : EntriesWhole(w)
              /\ NoPartialLine

\* a call whose payload panicked, and then a further structured call through
\* the same Logger that has written its entry, the only one of its stream
C27_Witness ==
    /\ Completed("g1")
    /\ call["g1"].id = 2
    /\ nwrites[1] = 0
    /\ call["g1"].shape = "j"
    /\ NewlinesIn(stream[call["g1"].w]) = 1

---------------------------------------------------------------------------
\* the position in its stream of the first byte the call of t has written
FirstByte(t) ==
    LET ids == owner[call[t].w]
    IN  CHOOSE i \in 1..Len(ids) :
            ids[i] = call[t].id /\ \A j \in 1..(i - 1) : ids[j] # call[t].id

\* the call of u, all of whose Writes succeeded, has written a whole entry
\* that starts a line of its stream
StartsALine(u) ==
    /\ IsEntryLine(Out(u))
    /\ FirstByte(u) \in LineStarts(stream[call[u].w])

(* C28: a structured call one of whose Writes failed does not corrupt the   *)
(* entries that follow: every later call whose Writes all succeed writes a  *)
(* whole entry that starts at the beginning of a line of its stream.        *)
C28_FailureKeepsLaterEntriesWhole ==
    \A t, u \in Goroutines :
        (call[t].failed /\ call[t].ret /\ call[t].shape = "j"
           /\ call[u].id > call[t].id /\ Completed(u)) => StartsALine(u)

\* C28 where the failed call had written nothing, or had written its newline
C28_LaterEntriesWholeAfterWholeLines ==
    \A t, u \in Goroutines :
        (call[t].failed /\ call[t].ret /\ call[t].shape = "j"
           /\ call[u].id > call[t].id /\ Completed(u)
           /\ (Out(t) = <<>> \/ Out(t)[Len(Out(t))] = "\n")) => StartsALine(u)

---------------------------------------------------------------------------
\* goroutine t is in, or has returned from, a structured call that reached
\* its Writes
WritingJ(t) == call[t].id # 0 /\ call[t].shape = "j" /\ pc[t] # "panicked"

\* the entry of the structured call of t: all the bytes it is to write
WholeEntry(t) ==
    Concat(logj(call[t].s, logger[call[t].l], call[t].msg, call[t].item))

\* the entry of t is, in this order: '{', the message, the severity and the
\* trace that apply, the payload, and the newline
InOrder(t) ==
    LET whole == WholeEntry(t)
        ks == Keys(EntryMembers(whole))
        rk == ReservedKeys(t)
    IN  /\ whole[1] = "{"
        /\ whole[Len(whole)] = "\n" /\ NewlinesIn(whole) = 1
        /\ IsEntryLine(whole)
        /\ Len(ks) = Len(rk) + (IF call[t].item.kind = "struct"
                                 THEN Len(call[t].item.fields) ELSE 1)
        /\ SubSeq(ks, 1, Len(rk)) = rk

\* what t has written so far is the beginning of its entry: nothing was
\* written out of order and nothing after a fragment that was not
WrittenInOrder(t) ==
    WritingJ(t) =>
        /\ InOrder(t)
        /\ Len(Out(t)) <= Len(WholeEntry(t))
        /\ Out(t) = SubSeq(WholeEntry(t), 1, Len(Out(t)))
        /\ call[t].failed => Len(Out(t)) < Len(WholeEntry(t))

\* a structured call whose Write has failed writes nothing more
StopsAtFailure(t) ==
    (WritingJ(t) /\ call[t].failed /\ call'[t].id = call[t].id) =>
        /\ stream' = stream
        /\ nwrites'[call[t].id] = nwrites[call[t].id]

(* C29: a structured call attempts the Writes of its entry strictly in the  *)
(* order '{', message, severity, trace, payload, newline, and stops at the  *)
(* first Write that fails: no fragment of the entry is written after it.    *)
C29_InOrderUntilFirstFailure ==
    /\ [](\A t \in Goroutines : WrittenInOrder(t))
    /\ [][\A t \in Goroutines : StopsAtFailure(t)]_vars

\* a structured call with message, severity, trace and payload has returned
\* after its fourth Write failed
C29_Witness ==
    /\ WritingJ("g1")
    /\ call["g1"].failed /\ call["g1"].ret
    /\ call["g1"].msg # <<>>
    /\ logger[call["g1"].l].trace # <<>>
    /\ nwrites[call["g1"].id] = 4
    /\ Len(Out("g1")) > 1


===========================================================================
